---------------------------- MODULE Spec2Model ----------------------------
(***************************************************************************)
(* A model of the browser dashboard client of BPSALGOAi                    *)
(* (src/bpsalgoAi/app/static/js/dashboard.js, first revision in the file,  *)
(* lines 1-907; the second revision repeats the same WebSocket and polling *)
(* code verbatim).                                                         *)
(*                                                                         *)
(* The client is single threaded: every action below is one task of the   *)
(* browser event loop (a click handler, a timer callback, a WebSocket     *)
(* event handler, or the continuation of an async function after its      *)
(* awaited fetch settles), run to completion.                              *)
(*                                                                         *)
(* Time is modelled for the heartbeat timers and for the poll timer, in     *)
(* units of 10 s (the poll period, and the gcd of the 20 s ping interval   *)
(* and the 30 s silence timeout); each specification runs the timers of    *)
(* the part it is about.  Reconnect timers carry their delay in ms and     *)
(* fire at any later moment.                                               *)
(***************************************************************************)
EXTENDS Integers, Sequences, FiniteSets, Bags, TLC

\* ------------------------------------------------------------------ bounds
MaxSockets == 2       \* WebSocket objects alive at once (not yet closed, or still referenced)
MaxTimers == 1        \* reconnect timers pending at once
MaxFetches == 1       \* /api/config fetches in flight at once
MaxSilence == 6       \* cap of the modelled silence of a socket, in ticks of 10 s
MaxQuotes == 2        \* quotes in one payload
MaxInFlight == 2      \* refreshMarketData calls awaiting their response at once
MaxSince == 2         \* cap of the modelled time since the last poll, in ticks of 10 s
MaxStarts == 1        \* startAlgoAgent calls awaiting their response at once
MaxCustom == 2        \* user-added symbols
MaxWatchlistFetches == 1  \* refreshWatchlist calls awaiting their response at once
MaxItems == 2         \* items in one /api/watchlist answer
MaxRendered == 3      \* quotes in one payload of a displayMarketData call
MaxAgentCalls == 1    \* startAlgoAgent (stopAlgoAgent) calls awaiting their response at once
MaxStatus == 2        \* /api/algo/status fetches awaiting processing at once
MaxTabFetches == 3    \* watchlist tab fetches awaiting their response at once

\* --------------------------------------------------------- program constants
MAX_RECONNECT_ATTEMPTS == 6
BackoffBaseMs == 1000
BackoffCapMs == 30000
HeartbeatIntervalTicks == 2     \* setInterval(..., 20000)
HeartbeatTimeoutTicks == 3      \* setTimeout(..., 30000), and age > 30000
PollPeriodTicks == 1            \* setInterval(refreshMarketData, 10000)
AlgoTopRows == 10               \* algoWatchlistFull.slice(0, 10)

Null == 0
SockIds == 1..MaxSockets

VARIABLES
    \* --- WebSocket client (module-level state of dashboard.js)
    sockets,              \* every WebSocket object with its connectWebSocket closure
    marketSocket,         \* the global marketSocket: Null or a socket id
    reconnectAttempts,    \* the global reconnectAttempts
    reconnectTimers,      \* bag of pending setTimeout(() => connectWebSocket(url), delay), by delay
    wsToggleChecked,      \* wsToggle.checked
    wsStatus,             \* state last passed to updateWsStatus
    wsConnectBtnDisabled,
    wsDisconnectBtnDisabled,
    configFetches,        \* number of initWebSocketIfConfigured calls awaiting /api/config
    sectionsUnlocked,     \* setupUnlockedSections has run (its listeners and timers exist)
    \* --- backend (external)
    wsEndpoint,           \* cfg.ws_endpoint: "none", "ok" or "bad" (new WebSocket throws)
    accessTokenValid,     \* cfg.access_token_valid as the backend reports it now
    \* --- history variables of the WebSocket client
    lastDelay,            \* delay (ms) of the last reconnect timer scheduled since the last onopen; 0: none
    scheduledSinceOpen,   \* reconnect timers scheduled since the last onopen (or page load)
    hbClosed,             \* the heartbeat timeout has closed a socket
    verifyOtpPhase,       \* verifyOtp: "idle", "verify" (awaiting /auth/verify), "config" (awaiting loadConfig)
    \* --- market panel
    marketData,           \* the content of the #marketData element
    lastDisplayed,        \* history: the argument of the last displayMarketData call
    \* --- REST polling of /api/market/live
    refreshDataBtnDisabled,
    marketFetches,        \* the refreshMarketData calls awaiting their response, in issue order
    marketLog,            \* type of the last line refreshMarketData passed to addLog
    pollTimer,            \* ticks until setInterval(refreshMarketData, 10000) is due; -1: no timer
    sinceIssue,           \* history: ticks since refreshMarketData was last called
    lastResponse,         \* history: the response the last finished refreshMarketData call got
    staleOverFresh,       \* history: a response was rendered over the response to a later call
    renderedUnder,        \* history: the WebSocket situation when a poll last rendered a success
    \* --- trade mode
    tradeModeStored,      \* localStorage 'trade_mode'
    paperTradeChecked,    \* paperTradeToggle.checked
    paperTradeLabel,      \* paperTradeLabel.textContent
    backtestChecked,      \* backtestToggle.checked
    startBtnDisabled,
    startFetches,         \* the startAlgoAgent calls awaiting /api/algo/start, by trade_mode sent
    startLog,             \* the last line startAlgoAgent logged after its response
    lastStart,            \* history: the toggles read and the trade_mode sent by the last startAlgoAgent
    \* --- watchlist symbols
    customWatchlistSymbols,   \* the user-added symbols
    allSymbols,               \* the symbol list of the last quote fetch
    fetchedFor,               \* history: customWatchlistSymbols at the last quote fetch
    \* --- watchlist tables
    algoWatchlistFull,        \* the global algoWatchlistFull
    algoWatchlistShowMore,    \* the global algoWatchlistShowMore
    watchlistTabContent,      \* the rows of the table in #watchlistTabContent, by symbol
    watchlistFetches,         \* number of refreshWatchlist calls awaiting /api/watchlist
    watchlistData,            \* the rows of the table in #watchlistData, by symbol
    \* --- strategy configuration (the trading dashboard)
    configForm,               \* the four inputs of the configuration form
    backendConfig,            \* the strategy parameters the backend holds
    savedConfig,              \* history: the config object of the last saveConfiguration
    notification,             \* the last showNotification message
    \* --- history of the WebSocket controls
    manualDisconnect,         \* history: Disconnect has closed a socket, with no
                              \* initWebSocketIfConfigured call pending, and since then
                              \* neither Connect was clicked nor the toggle checked
    \* --- sections and navigation
    sectionDisplay,           \* style.display of the main sections
    watchlistInterval,        \* the auto-refresh interval of the watchlist page is set
    watchlistTimers,          \* the number of live interval timers made by startWatchlistAutoRefresh
    lastNav,                  \* history: the navigation entry clicked last
    timerRefreshHidden,       \* history: a timer tick has called refreshWatchlist with the section hidden
    timerRestarted,           \* history: startWatchlistAutoRefresh has run with the handle set
    \* --- Start / Stop buttons of the agent
    agentStartDisabled,       \* startBtn.disabled
    agentStopDisabled,        \* stopBtn.disabled
    agentStarts,              \* the startAlgoAgent calls awaiting their response, by outcome
    agentStops,               \* the stopAlgoAgent calls awaiting their response, by outcome
    statusFetches,            \* the /api/algo/status fetches awaiting processing, by is_running
    agentRunning,             \* the agent runs on the backend
    statusSeen,               \* history: a status response has been processed
    \* --- watchlist tabs
    currentWatchlistTab,      \* the global currentWatchlistTab
    tabFetches,               \* the tab fetches awaiting their response, by tab
    tabContentOf,             \* history: the tab whose request wrote #watchlistTabContent last
    \* --- page load
    page,                     \* the page the script runs on (see Pages)
    pageLoaded,               \* the DOMContentLoaded handler has run
    windowSectionsUnlocked,   \* window._sectionsUnlocked
    setupRuns,                \* calls of setupUnlockedSections
    intervals,                \* setInterval calls of setupUnlockedSections: status (5 s), market (10 s)
    listeners                 \* addEventListener calls of setupUnlockedSections, by element

wsVars == <<sockets, marketSocket, reconnectAttempts, reconnectTimers, wsToggleChecked,
            wsStatus, wsConnectBtnDisabled, wsDisconnectBtnDisabled, configFetches,
            sectionsUnlocked, wsEndpoint, accessTokenValid, lastDelay,
            scheduledSinceOpen, hbClosed, verifyOtpPhase>>

panelVars == <<marketData, lastDisplayed>>

pollVars == <<refreshDataBtnDisabled, marketFetches, marketLog, pollTimer, sinceIssue,
              lastResponse, staleOverFresh, renderedUnder>>

modeVars == <<tradeModeStored, paperTradeChecked, paperTradeLabel, backtestChecked,
              startBtnDisabled, startFetches, startLog, lastStart>>

symVars == <<customWatchlistSymbols, allSymbols, fetchedFor>>

watchVars == <<algoWatchlistFull, algoWatchlistShowMore, watchlistTabContent,
               watchlistFetches, watchlistData>>

configVars == <<configForm, backendConfig, savedConfig, notification>>

histVars == <<manualDisconnect>>

sectionVars == <<sectionDisplay, watchlistInterval, watchlistTimers, lastNav, timerRefreshHidden, timerRestarted>>

agentVars == <<agentStartDisabled, agentStopDisabled, agentStarts, agentStops,
               statusFetches, agentRunning, statusSeen>>

tabVars == <<currentWatchlistTab, tabFetches, tabContentOf>>

loadVars == <<page, pageLoaded, windowSectionsUnlocked, setupRuns, intervals, listeners>>

extVars == <<watchVars, configVars, histVars, sectionVars, agentVars, tabVars, loadVars>>
extButWatchlist == <<configVars, histVars, sectionVars, agentVars, tabVars, loadVars>>
extButConfig == <<watchVars, histVars, sectionVars, agentVars, tabVars, loadVars>>
extButHist == <<watchVars, configVars, sectionVars, agentVars, tabVars, loadVars>>
extButSections == <<watchVars, configVars, histVars, agentVars, tabVars, loadVars>>
extButAgent == <<watchVars, configVars, histVars, sectionVars, tabVars, loadVars>>
extButWatchlistTabs == <<configVars, histVars, sectionVars, agentVars, loadVars>>

vars == <<wsVars, panelVars, pollVars, modeVars, symVars, extVars>>

\* ------------------------------------------------------------------ helpers
Min(a, b) == IF a <= b THEN a ELSE b

RECURSIVE Pow2(_)
Pow2(n) == IF n = 0 THEN 1 ELSE 2 * Pow2(n - 1)

NoSocket == [readyState |-> "NONE", hbInterval |-> -1, hbTimeout |-> -1, silence |-> 0]

Live == {"CONNECTING", "OPEN"}

\* The client state the handlers read and write, as one record.
W == [sockets |-> sockets, marketSocket |-> marketSocket,
      reconnectAttempts |-> reconnectAttempts, reconnectTimers |-> reconnectTimers,
      wsToggleChecked |-> wsToggleChecked, wsStatus |-> wsStatus,
      wsConnectBtnDisabled |-> wsConnectBtnDisabled,
      wsDisconnectBtnDisabled |-> wsDisconnectBtnDisabled,
      lastDelay |-> lastDelay, scheduledSinceOpen |-> scheduledSinceOpen,
      hbClosed |-> hbClosed, overflow |-> FALSE]

\* A closed socket nothing refers to any more is garbage: its slot is free again.
Collect(w) ==
    [w EXCEPT !.sockets = [s \in SockIds |->
        IF w.sockets[s].readyState = "CLOSED" /\ s # w.marketSocket THEN NoSocket ELSE w.sockets[s]]]

Commit(w) ==
    LET c == Collect(w) IN
    /\ ~c.overflow
    /\ BagCardinality(c.reconnectTimers) <= MaxTimers
    /\ sockets' = c.sockets
    /\ marketSocket' = c.marketSocket
    /\ reconnectAttempts' = c.reconnectAttempts
    /\ reconnectTimers' = c.reconnectTimers
    /\ wsToggleChecked' = c.wsToggleChecked
    /\ wsStatus' = c.wsStatus
    /\ wsConnectBtnDisabled' = c.wsConnectBtnDisabled
    /\ wsDisconnectBtnDisabled' = c.wsDisconnectBtnDisabled
    /\ lastDelay' = c.lastDelay
    /\ scheduledSinceOpen' = c.scheduledSinceOpen
    /\ hbClosed' = c.hbClosed

\* -------------------------------------------------- WebSocket client functions

\* updateWsStatus(state): the status text and the Connect / Disconnect buttons.
updateWsStatus(w, state) ==
    [w EXCEPT !.wsStatus = state,
              !.wsConnectBtnDisabled = (state = "connected"),
              !.wsDisconnectBtnDisabled = (state # "connected")]

\* WebSocket.close() on socket s: CONNECTING or OPEN becomes CLOSING; the close
\* event (onclose) is delivered by a later task.
SocketClose(w, s) ==
    IF w.sockets[s].readyState \in Live
    THEN [w EXCEPT !.sockets[s].readyState = "CLOSING"]
    ELSE w

\* closeWebSocket that drops the reference without closing the socket.
closeWebSocket_NoClose(w) == [w EXCEPT !.marketSocket = Null]

closeWebSocket(w) ==
    IF w.marketSocket # Null
    THEN [SocketClose(w, w.marketSocket) EXCEPT !.marketSocket = Null]
    ELSE w

\* attemptReconnect without the 30 s cap of the delay.
attemptReconnect_NoCap(w, url) ==
    IF ~w.wsToggleChecked THEN w
    ELSE IF w.reconnectAttempts >= MAX_RECONNECT_ATTEMPTS THEN w
    ELSE LET delay == BackoffBaseMs * Pow2(w.reconnectAttempts) IN
         [w EXCEPT !.reconnectAttempts = @ + 1,
                   !.reconnectTimers = @ (+) SetToBag({delay}),
                   !.scheduledSinceOpen = @ + 1,
                   !.lastDelay = delay]

\* attemptReconnect with the budget test off by one (> for >=).
attemptReconnect_OffByOne(w, url) ==
    IF ~w.wsToggleChecked THEN w
    ELSE IF w.reconnectAttempts > MAX_RECONNECT_ATTEMPTS THEN w
    ELSE LET delay == Min(BackoffCapMs, BackoffBaseMs * Pow2(w.reconnectAttempts)) IN
         [w EXCEPT !.reconnectAttempts = @ + 1,
                   !.reconnectTimers = @ (+) SetToBag({delay}),
                   !.scheduledSinceOpen = @ + 1,
                   !.lastDelay = delay]

attemptReconnect(w, url) ==
    IF ~w.wsToggleChecked THEN w
    ELSE IF w.reconnectAttempts >= MAX_RECONNECT_ATTEMPTS THEN w
    ELSE LET delay == Min(BackoffCapMs, BackoffBaseMs * Pow2(w.reconnectAttempts)) IN
         [w EXCEPT !.reconnectAttempts = @ + 1,
                   !.reconnectTimers = @ (+) SetToBag({delay}),
                   !.scheduledSinceOpen = @ + 1,
                   !.lastDelay = delay]

FreeSlots(w) == {s \in SockIds : w.sockets[s].readyState = "NONE"
                                 \/ (w.sockets[s].readyState = "CLOSED" /\ s = w.marketSocket)}

connectWebSocket(w, url) ==
    IF url = "none" THEN w
    ELSE IF w.marketSocket # Null /\ w.sockets[w.marketSocket].readyState \in Live THEN w
    ELSE IF url = "bad"
         THEN \* new WebSocket(url) throws: the catch block
              attemptReconnect(updateWsStatus(updateWsStatus(w, "connecting"), "error"), url)
    ELSE IF FreeSlots(w) = {} THEN [w EXCEPT !.overflow = TRUE]
    ELSE LET s == CHOOSE x \in FreeSlots(w) : \A y \in FreeSlots(w) : x <= y
             w1 == updateWsStatus(w, "connecting")
         IN  [w1 EXCEPT !.marketSocket = s,
                        !.sockets[s] = [readyState |-> "CONNECTING", hbInterval |-> -1,
                                        hbTimeout |-> -1, silence |-> 0]]

\* startHeartbeat / stopHeartbeat of the closure of socket s.
startHeartbeat(w, s) == [w EXCEPT !.sockets[s].hbInterval = HeartbeatIntervalTicks]

stopHeartbeat(w, s) == [w EXCEPT !.sockets[s].hbInterval = -1, !.sockets[s].hbTimeout = -1]

\* The setInterval callback of startHeartbeat: ping on the global marketSocket
\* (send throws when it is null or not open; the try swallows it), then re-arm
\* the timeout.  The interval itself re-arms.
heartbeatIntervalCallback(w, s) ==
    [w EXCEPT !.sockets[s].hbTimeout = HeartbeatTimeoutTicks,
              !.sockets[s].hbInterval = HeartbeatIntervalTicks]

\* The setTimeout callback of startHeartbeat: close the global marketSocket when
\* this closure saw no message for more than 30 s.
heartbeatTimeoutCallback(w, s) ==
    LET w1 == [w EXCEPT !.sockets[s].hbTimeout = -1] IN
    IF w.sockets[s].silence > HeartbeatTimeoutTicks /\ w.marketSocket # Null
    THEN [SocketClose(w1, w.marketSocket) EXCEPT !.hbClosed = TRUE]
    ELSE w1

\* An onopen that leaves reconnectAttempts as it is.
onopen_KeepAttempts(w, s) ==
    LET w1 == [w EXCEPT !.scheduledSinceOpen = 0, !.lastDelay = 0, !.sockets[s].silence = 0]
    IN  updateWsStatus(startHeartbeat(w1, s), "connected")

onopen(w, s) ==
    LET w1 == [w EXCEPT !.reconnectAttempts = 0, !.scheduledSinceOpen = 0, !.lastDelay = 0,
                        !.sockets[s].silence = 0]
    IN  updateWsStatus(startHeartbeat(w1, s), "connected")

\* onerror reads marketSocket.readyState of the global before it updates the
\* status: with marketSocket null that read throws and the handler ends there.
onerror(w, s) == IF w.marketSocket = Null THEN w ELSE updateWsStatus(w, "error")

onclose(w, s, url) == attemptReconnect(updateWsStatus(stopHeartbeat(w, s), "disconnected"), url)

\* ------------------------------------------------------------- market panel

\* The quotes a payload can carry.  change is the raw JSON value as text.
Quotes == { [symbol |-> "NIFTY50", price |-> "26328.10", change |-> "1.50"],
            [symbol |-> "SENSEX",  price |-> "85012.00", change |-> "-0.75"],
            [symbol |-> "TCS",     price |-> "3200",     change |-> "n/a"] }

\* More quotes a payload can hold: no change at all, and a signed text.
RenderQuotes ==
    Quotes \cup { [symbol |-> "RELIANCE", price |-> "2950.50", change |-> "0"],
                  [symbol |-> "INFY",     price |-> "1500",    change |-> "+2.25"] }

\* parseFloat on the texts above, in hundredths; NaN for text that is no number.
NaN == [nan |-> TRUE, v |-> 0]
Num(v) == [nan |-> FALSE, v |-> v]
parseFloat(text) ==
    CASE text = "1.50" -> Num(150)
      [] text = "-0.75" -> Num(-75)
      [] text = "0" -> Num(0)
      [] text = "26328.10" -> Num(2632810)
      [] text = "85012.00" -> Num(8501200)
      [] text = "3200" -> Num(320000)
      [] text = "2950.50" -> Num(295050)
      [] text = "1500" -> Num(150000)
      [] text = "+2.25" -> Num(225)
      [] OTHER -> NaN

\* A .market-item that is 'positive' unless its change is below zero.
MarketItem_PositiveUnlessFalling(q) ==
    LET p == parseFloat(q.change)
        change == IF p.nan \/ p.v = 0 THEN 0 ELSE p.v
    IN  [symbol |-> q.symbol,
         price |-> parseFloat(q.price),
         changeClass |-> IF change >= 0 THEN "positive" ELSE "negative",
         changeSign |-> IF change >= 0 THEN "+" ELSE "",
         change |-> change]

\* One .market-item of displayMarketData.
MarketItem(q) ==
    LET p == parseFloat(q.change)
        change == IF p.nan \/ p.v = 0 THEN 0 ELSE p.v     \* parseFloat(..) || 0
    IN  [symbol |-> q.symbol,
         price |-> parseFloat(q.price),
         changeClass |-> IF change > 0 THEN "positive" ELSE IF change < 0 THEN "negative" ELSE "",
         changeSign |-> IF change > 0 THEN "+" ELSE "",
         change |-> change]

RECURSIVE AppendItems(_, _)
AppendItems(items, symbols) ==
    IF symbols = <<>> THEN items
    ELSE AppendItems(Append(items, MarketItem(Head(symbols))), Tail(symbols))

\* A payload handed to displayMarketData: NoData (undefined / null), a value
\* whose symbols is no array, or [symbols |-> <<quote, ...>>].
NoData == [kind |-> "none"]
NotArray == [kind |-> "object", symbols |-> <<>>]
SymbolsArray(qs) == [kind |-> "array", symbols |-> qs]

EmptyPanel == [placeholder |-> "", items |-> <<>>]

\* displayMarketData that does not clear the panel first.
displayMarketData_Append(panel, data) ==
    IF data.kind = "array"
    THEN [panel EXCEPT !.items = AppendItems(panel.items, data.symbols)]
    ELSE [panel EXCEPT !.placeholder = "No market data available"]

displayMarketData(panel, data) ==
    LET cleared == EmptyPanel IN                       \* marketData.innerHTML = ''
    IF data.kind = "array"
    THEN [cleared EXCEPT !.items = AppendItems(cleared.items, data.symbols)]
    ELSE [cleared EXCEPT !.placeholder = "No market data available"]

\* Any call of displayMarketData, with any payload.
RenderPayloads ==
    {NoData, NotArray} \cup { SymbolsArray(l) : l \in UNION { [1..n -> RenderQuotes] : n \in 0..MaxRendered } }

DisplayMarketData(data) ==
    /\ marketData' = displayMarketData(marketData, data)
    /\ lastDisplayed' = data
    /\ UNCHANGED <<wsVars, pollVars, modeVars, symVars, extVars>>

\* --------------------------------------------------------- WebSocket actions

\* The frames a server can send.  A data frame carries its array (or a value
\* that is no array) under quotes, data or symbols; the handler treats the
\* three keys alike.
WsQuoteLists == { <<q>> : q \in {r \in Quotes : r.symbol = "NIFTY50"} }
WsFrames == { [type |-> "pong"], [type |-> "text"], [type |-> "garbage"] }
            \cup { [type |-> "quotes", value |-> SymbolsArray(l)] : l \in WsQuoteLists }
            \cup { [type |-> "quotes", value |-> NotArray] }

\* /api/config as the backend answers it, or a failed request (fetch or
\* json() throws).  The answer is the backend's state when the continuation
\* runs: an answer computed earlier leads to the same client states, because
\* the backend's steps change no client state.
ConfigFailed == [failed |-> TRUE, tokenValid |-> FALSE, url |-> "none"]
ConfigNow == [failed |-> FALSE, tokenValid |-> accessTokenValid, url |-> wsEndpoint]

\* initWebSocketIfConfigured up to its first await: the fetch of /api/config.
InitCall == /\ configFetches < MaxFetches
            /\ configFetches' = configFetches + 1

NoInitCall == configFetches' = configFetches

\* initWebSocketIfConfigured after the awaits.
initWebSocketIfConfigured(w, cfg) ==
    IF cfg.failed THEN w                                   \* the catch block
    ELSE IF ~cfg.tokenValid THEN closeWebSocket(updateWsStatus(w, "disconnected"))
    ELSE IF ~w.wsToggleChecked THEN updateWsStatus(w, "disabled")
    ELSE IF cfg.url # "none" THEN connectWebSocket(w, cfg.url)
    ELSE closeWebSocket(updateWsStatus(w, "disconnected"))

InitContinues ==
    /\ configFetches > 0
    /\ configFetches' = configFetches - 1
    /\ \E cfg \in {ConfigNow, ConfigFailed} : Commit(initWebSocketIfConfigured(W, cfg))
    /\ UNCHANGED <<sectionsUnlocked, wsEndpoint, accessTokenValid, verifyOtpPhase, panelVars, pollVars, modeVars, symVars, extVars>>

\* The change listener of wsToggle (registered by setupUnlockedSections).  On a
\* page still locked the checkbox has no listener and only flips.
WsToggleChange ==
    LET checked == ~wsToggleChecked
        w == [W EXCEPT !.wsToggleChecked = checked]
    IN  /\ IF ~sectionsUnlocked THEN Commit(w) /\ NoInitCall
           ELSE IF checked
           THEN /\ Commit(w)
                /\ IF marketSocket = Null \/ sockets[marketSocket].readyState # "OPEN"
                   THEN InitCall ELSE NoInitCall
           ELSE Commit(updateWsStatus(closeWebSocket(w), "disabled")) /\ NoInitCall
        /\ manualDisconnect' = (manualDisconnect /\ ~checked)
        /\ UNCHANGED <<sectionsUnlocked, wsEndpoint, accessTokenValid, verifyOtpPhase, panelVars, pollVars, modeVars, symVars, extButHist>>

WsConnectClick ==
    /\ sectionsUnlocked /\ ~wsConnectBtnDisabled
    /\ InitCall
    /\ manualDisconnect' = FALSE
    /\ UNCHANGED <<sockets, marketSocket, reconnectAttempts, reconnectTimers, wsToggleChecked,
                   wsStatus, wsConnectBtnDisabled, wsDisconnectBtnDisabled, sectionsUnlocked,
                   wsEndpoint, accessTokenValid, lastDelay, scheduledSinceOpen, hbClosed,
                   verifyOtpPhase, panelVars, pollVars, modeVars, symVars, extButHist>>

WsDisconnectClick ==
    /\ sectionsUnlocked /\ ~wsDisconnectBtnDisabled
    /\ Commit(updateWsStatus(closeWebSocket(W), "disconnected"))
    /\ manualDisconnect' = (marketSocket # Null /\ configFetches = 0)
    /\ UNCHANGED <<configFetches, sectionsUnlocked, wsEndpoint, accessTokenValid,
                   verifyOtpPhase, panelVars, pollVars, modeVars, symVars, extButHist>>

\* A reconnect timer expires: () => connectWebSocket(url).
ReconnectTimerFires ==
    /\ \E delay \in BagToSet(reconnectTimers) :
         Commit(connectWebSocket([W EXCEPT !.reconnectTimers = @ (-) SetToBag({delay})],
                                 wsEndpoint))
    /\ UNCHANGED <<configFetches, sectionsUnlocked, wsEndpoint, accessTokenValid,
                   verifyOtpPhase, panelVars, pollVars, modeVars, symVars, extVars>>

\* The connection of socket s is established: its open event.
SocketOpens(s) ==
    /\ sockets[s].readyState = "CONNECTING"
    /\ Commit(onopen([W EXCEPT !.sockets[s].readyState = "OPEN"], s))
    /\ UNCHANGED <<configFetches, sectionsUnlocked, wsEndpoint, accessTokenValid,
                   verifyOtpPhase, panelVars, pollVars, modeVars, symVars, extVars>>

\* onmessage of socket s.
onmessage(w, s) == [w EXCEPT !.sockets[s].silence = 0]       \* lastMessageTime = Date.now()

SocketMessage(s) ==
    /\ sockets[s].readyState = "OPEN"
    /\ Commit(onmessage(W, s))
    /\ \E f \in WsFrames :
         IF f.type = "quotes"
         THEN /\ marketData' = displayMarketData(marketData, f.value)
              /\ lastDisplayed' = f.value
         ELSE UNCHANGED panelVars
    /\ UNCHANGED <<configFetches, sectionsUnlocked, wsEndpoint, accessTokenValid, verifyOtpPhase,
                   pollVars, modeVars, symVars, extVars>>

\* The connection of socket s fails or the server ends it: the error event (on
\* a failure) and the close event, in one task.
SocketDrops(s) ==
    /\ sockets[s].readyState \in Live
    /\ \E failed \in BOOLEAN :
         LET w0 == [W EXCEPT !.sockets[s].readyState = "CLOSED"]
             w1 == IF failed THEN onerror(w0, s) ELSE w0
         IN  Commit(onclose(w1, s, wsEndpoint))
    /\ UNCHANGED <<configFetches, sectionsUnlocked, wsEndpoint, accessTokenValid,
                   verifyOtpPhase, panelVars, pollVars, modeVars, symVars, extVars>>

\* The close event of a socket the client closed itself.  Closing a socket
\* that was still connecting fails the connection: error first, then close.
SocketClosed(s) ==
    /\ sockets[s].readyState = "CLOSING"
    /\ \E failed \in BOOLEAN :
         LET w0 == [W EXCEPT !.sockets[s].readyState = "CLOSED"]
             w1 == IF failed THEN onerror(w0, s) ELSE w0
         IN  Commit(onclose(w1, s, wsEndpoint))
    /\ UNCHANGED <<configFetches, sectionsUnlocked, wsEndpoint, accessTokenValid,
                   verifyOtpPhase, panelVars, pollVars, modeVars, symVars, extVars>>

\* The event loop runs the heartbeat timer of socket s that is due: the
\* interval callback, or the silence timeout when it expires first.
HeartbeatTimer(s) ==
    /\ sockets[s].hbInterval = 0 \/ sockets[s].hbTimeout = 0
    /\ IF sockets[s].hbInterval = 0
       THEN Commit(heartbeatIntervalCallback(W, s))
       ELSE Commit(heartbeatTimeoutCallback(W, s))
    /\ UNCHANGED <<configFetches, sectionsUnlocked, wsEndpoint, accessTokenValid,
                   verifyOtpPhase, panelVars, pollVars, modeVars, symVars, extVars>>

\* 10 s pass.  A timer that is due runs before time moves on.
Elapse(t) == IF t > 0 THEN t - 1 ELSE t

Advance ==
    /\ \A s \in SockIds : sockets[s].hbInterval # 0 /\ sockets[s].hbTimeout # 0
    /\ \E s \in SockIds : sockets[s].hbInterval > 0
    /\ sockets' = [s \in SockIds |->
            IF sockets[s].hbInterval = -1 THEN sockets[s]
            ELSE [sockets[s] EXCEPT !.hbInterval = Elapse(@), !.hbTimeout = Elapse(@),
                                    !.silence = Min(MaxSilence, @ + 1)]]
    /\ UNCHANGED <<marketSocket, reconnectAttempts, reconnectTimers, wsToggleChecked,
                   wsStatus, wsConnectBtnDisabled, wsDisconnectBtnDisabled, configFetches,
                   sectionsUnlocked, wsEndpoint, accessTokenValid, lastDelay,
                   scheduledSinceOpen, hbClosed, verifyOtpPhase, panelVars, pollVars, modeVars, symVars, extVars>>

\* The backend's session ends.
TokenExpires ==
    /\ accessTokenValid
    /\ accessTokenValid' = FALSE
    /\ UNCHANGED <<sockets, marketSocket, reconnectAttempts, reconnectTimers, wsToggleChecked,
                   wsStatus, wsConnectBtnDisabled, wsDisconnectBtnDisabled, configFetches,
                   sectionsUnlocked, wsEndpoint, lastDelay, scheduledSinceOpen, hbClosed,
                   verifyOtpPhase, panelVars, pollVars, modeVars, symVars, extVars>>

\* verifyOtp: the click (the auth section is shown on a locked page only), the
\* answer of /auth/verify, and the continuation after loadConfig, which calls
\* refreshWatchlist and initWebSocketIfConfigured.
VerifyOtpClick ==
    /\ ~sectionsUnlocked /\ verifyOtpPhase = "idle"
    /\ verifyOtpPhase' = "verify"
    /\ UNCHANGED <<sockets, marketSocket, reconnectAttempts, reconnectTimers, wsToggleChecked,
                   wsStatus, wsConnectBtnDisabled, wsDisconnectBtnDisabled, configFetches,
                   sectionsUnlocked, wsEndpoint, accessTokenValid, lastDelay,
                   scheduledSinceOpen, hbClosed, panelVars, pollVars, modeVars, symVars, extVars>>

VerifyOtpResponse ==
    /\ verifyOtpPhase = "verify"
    /\ \E success \in BOOLEAN :
         /\ verifyOtpPhase' = IF success THEN "config" ELSE "idle"
         /\ accessTokenValid' = IF success THEN TRUE ELSE accessTokenValid
    /\ UNCHANGED <<sockets, marketSocket, reconnectAttempts, reconnectTimers, wsToggleChecked,
                   wsStatus, wsConnectBtnDisabled, wsDisconnectBtnDisabled, configFetches,
                   sectionsUnlocked, wsEndpoint, lastDelay, scheduledSinceOpen, hbClosed,
                   panelVars, pollVars, modeVars, symVars, extVars>>

VerifyOtpConfigLoaded ==
    /\ verifyOtpPhase = "config"
    /\ verifyOtpPhase' = "idle"
    /\ watchlistFetches' = Min(watchlistFetches + 1, MaxWatchlistFetches)
    /\ InitCall
    /\ UNCHANGED <<sockets, marketSocket, reconnectAttempts, reconnectTimers, wsToggleChecked,
                   wsStatus, wsConnectBtnDisabled, wsDisconnectBtnDisabled, sectionsUnlocked,
                   wsEndpoint, accessTokenValid, lastDelay, scheduledSinceOpen, hbClosed,
                   panelVars, pollVars, modeVars, symVars, extButWatchlist,
                   algoWatchlistFull, algoWatchlistShowMore, watchlistTabContent, watchlistData>>

\* ------------------------------------------------- REST polling of market data

\* The quote arrays a response of /api/market/live can carry.
QuoteLists == UNION { [1..n -> Quotes] : n \in 0..MaxQuotes }
MarketPayloads == {NotArray} \cup { SymbolsArray(l) : l \in QuoteLists }

\* What a refreshMarketData call gets: the fetch or response.json() throws, or
\* a JSON body with success and, when hasData, data.data.
FetchThrows == [kind |-> "throw", success |-> FALSE, hasData |-> FALSE, data |-> NoData]
JsonBody(success, hasData, payload) ==
    [kind |-> "json", success |-> success, hasData |-> hasData,
     data |-> IF hasData THEN payload ELSE NoData]
MarketResponses ==
    {FetchThrows}
    \cup { JsonBody(ok, TRUE, p) : ok \in BOOLEAN, p \in MarketPayloads }
    \cup { JsonBody(ok, FALSE, NoData) : ok \in BOOLEAN }
NoResponse == [kind |-> "none", success |-> FALSE, hasData |-> FALSE, data |-> NoData]

\* The situation of the WebSocket feed, as the user sees it.
WsSituation ==
    IF marketSocket # Null /\ sockets[marketSocket].readyState = "OPEN" THEN "connected"
    ELSE IF ~wsToggleChecked THEN "disabled"
    ELSE IF /\ reconnectAttempts >= MAX_RECONNECT_ATTEMPTS
            /\ reconnectTimers = EmptyBag
            /\ \A s \in SockIds : sockets[s].readyState \notin Live
         THEN "exhausted"
    ELSE "disconnected"

\* The state refreshMarketData reads and writes, as one record.
R == [refreshDataBtnDisabled |-> refreshDataBtnDisabled, marketFetches |-> marketFetches,
      marketLog |-> marketLog, sinceIssue |-> sinceIssue, lastResponse |-> lastResponse,
      staleOverFresh |-> staleOverFresh, renderedUnder |-> renderedUnder,
      marketData |-> marketData, lastDisplayed |-> lastDisplayed]

CommitPoll(r) ==
    /\ refreshDataBtnDisabled' = r.refreshDataBtnDisabled
    /\ marketFetches' = r.marketFetches
    /\ marketLog' = r.marketLog
    /\ sinceIssue' = r.sinceIssue
    /\ lastResponse' = r.lastResponse
    /\ staleOverFresh' = r.staleOverFresh
    /\ renderedUnder' = r.renderedUnder
    /\ marketData' = r.marketData
    /\ lastDisplayed' = r.lastDisplayed

NewFetch == [overtaken |-> FALSE]

\* refreshMarketData that does not poll while the WebSocket feed is open.
refreshMarketData_NotWhileWsOpen(r) ==
    IF marketSocket # Null /\ sockets[marketSocket].readyState = "OPEN" THEN r
    ELSE [r EXCEPT !.refreshDataBtnDisabled = TRUE, !.marketLog = "info",
                   !.marketFetches = Append(@, NewFetch), !.sinceIssue = 0]

\* refreshMarketData up to its first await: the button, the log line, the fetch.
refreshMarketData(r) ==
    [r EXCEPT !.refreshDataBtnDisabled = TRUE,
              !.marketLog = "info",
              !.marketFetches = Append(@, NewFetch),
              !.sinceIssue = 0]

RemoveAt(seq, i) == SubSeq(seq, 1, i - 1) \o SubSeq(seq, i + 1, Len(seq))

\* Call i of marketFetches renders data: displayMarketData(data).  The calls
\* issued before it that still wait are overtaken by it.
Render(r, i, data) ==
    [r EXCEPT !.marketData = displayMarketData(@, data),
              !.lastDisplayed = data,
              !.staleOverFresh = @ \/ r.marketFetches[i].overtaken,
              !.marketFetches = [k \in DOMAIN @ |->
                    IF k < i THEN [overtaken |-> TRUE] ELSE @[k]]]

\* refreshMarketData after the awaits that renders only the response to the
\* latest call.
refreshMarketDataContinues_LatestOnly(r, i, resp) ==
    LET r1 == IF resp.kind = "throw" THEN [r EXCEPT !.marketLog = "error"]
              ELSE IF i < Len(r.marketFetches) \/ r.marketFetches[i].overtaken THEN r
              ELSE IF resp.success
              THEN [Render(r, i, resp.data) EXCEPT !.marketLog = "success",
                                                   !.renderedUnder = WsSituation]
              ELSE LET r0 == [r EXCEPT !.marketLog = "warning"]
                   IN  IF resp.hasData THEN Render(r0, i, resp.data) ELSE r0
    IN  [r1 EXCEPT !.refreshDataBtnDisabled = FALSE,
                   !.marketFetches = RemoveAt(@, i),
                   !.lastResponse = resp]

\* refreshMarketData after the awaits whose catch block leaves the button alone.
refreshMarketDataContinues_NoReenable(r, i, resp) ==
    LET r1 == IF resp.kind = "throw" THEN [r EXCEPT !.marketLog = "error"]
              ELSE IF resp.success
              THEN [Render(r, i, resp.data) EXCEPT !.marketLog = "success",
                                                   !.renderedUnder = WsSituation,
                                                   !.refreshDataBtnDisabled = FALSE]
              ELSE LET r0 == [r EXCEPT !.marketLog = "warning",
                                       !.refreshDataBtnDisabled = FALSE]
                   IN  IF resp.hasData THEN Render(r0, i, resp.data) ELSE r0
    IN  [r1 EXCEPT !.marketFetches = RemoveAt(@, i),
                   !.lastResponse = resp]

\* refreshMarketData after the awaits, for call i of marketFetches and the
\* response resp: the success branch, the failure branch with the mock data,
\* or the catch block; each ends by enabling the button.
refreshMarketDataContinues(r, i, resp) ==
    LET r1 == IF resp.kind = "throw" THEN [r EXCEPT !.marketLog = "error"]
              ELSE IF resp.success
              THEN [Render(r, i, resp.data) EXCEPT !.marketLog = "success",
                                                   !.renderedUnder = WsSituation]
              ELSE LET r0 == [r EXCEPT !.marketLog = "warning"]
                   IN  IF resp.hasData THEN Render(r0, i, resp.data) ELSE r0
    IN  [r1 EXCEPT !.refreshDataBtnDisabled = FALSE,
                   !.marketFetches = RemoveAt(@, i),
                   !.lastResponse = resp]

\* The interval timer of setupUnlockedSections is due: refreshMarketData().
PollTimerFires ==
    /\ pollTimer = 0
    /\ Len(marketFetches) < MaxInFlight
    /\ CommitPoll(refreshMarketData(R))
    /\ pollTimer' = PollPeriodTicks
    /\ UNCHANGED <<wsVars, modeVars, symVars, extVars>>

\* A click on Refresh; a disabled button delivers no click.
RefreshClick ==
    /\ sectionsUnlocked /\ ~refreshDataBtnDisabled
    /\ Len(marketFetches) < MaxInFlight
    /\ CommitPoll(refreshMarketData(R))
    /\ UNCHANGED <<wsVars, pollTimer, modeVars, symVars, extVars>>

\* The fetch of call i settles with resp, and the call runs to its end.
MarketResponse(i, resp) ==
    /\ i \in 1..Len(marketFetches)
    /\ CommitPoll(refreshMarketDataContinues(R, i, resp))
    /\ UNCHANGED <<wsVars, pollTimer, modeVars, symVars, extVars>>

\* 10 s pass for the poll timer.  A timer that is due runs before time moves on.
PollElapses ==
    /\ pollTimer > 0
    /\ pollTimer' = pollTimer - 1
    /\ sinceIssue' = Min(MaxSince, sinceIssue + 1)
    /\ UNCHANGED <<wsVars, panelVars, refreshDataBtnDisabled, marketFetches, marketLog,
                   lastResponse, staleOverFresh, renderedUnder, modeVars, symVars, extVars>>

\* ------------------------------------------------------------------ trade mode

\* localStorage.getItem('trade_mode'): "null" when nothing is stored, 'paper',
\* 'live', or any other string.
StoredModes == {"null", "paper", "live", "other"}

\* The restore that takes Paper only for a stored 'paper'.
restoreTradeMode_LiveUnlessPaper(savedMode) ==
    IF savedMode = "paper"
    THEN [checked |-> TRUE, label |-> "Paper Trade"]
    ELSE [checked |-> FALSE, label |-> "Live Trade"]

\* setupUnlockedSections: the toggle and its label restored from savedMode.
restoreTradeMode(savedMode) ==
    IF savedMode = "live"
    THEN [checked |-> FALSE, label |-> "Live Trade"]
    ELSE [checked |-> TRUE, label |-> "Paper Trade"]

\* startAlgoAgent: trade_mode determined from the toggles.
tradeModeFromToggles(paperChecked, backtest) ==
    IF backtest THEN "backtest"
    ELSE IF ~paperChecked THEN "live"
    ELSE "paper"

NoStart == [paperChecked |-> TRUE, backtestChecked |-> FALSE, trade_mode |-> "none"]

\* The change listener of paperTradeToggle.
PaperTradeToggleChange ==
    /\ sectionsUnlocked
    /\ paperTradeChecked' = ~paperTradeChecked
    /\ tradeModeStored' = IF paperTradeChecked' THEN "paper" ELSE "live"
    /\ paperTradeLabel' = IF paperTradeChecked' THEN "Paper Trade" ELSE "Live Trade"
    /\ UNCHANGED <<wsVars, panelVars, pollVars, backtestChecked, startBtnDisabled, startFetches,
                   startLog, lastStart, symVars, extVars>>

\* The backtest checkbox has no listener: a click only flips it.
BacktestToggleChange ==
    /\ sectionsUnlocked
    /\ backtestChecked' = ~backtestChecked
    /\ UNCHANGED <<wsVars, panelVars, pollVars, tradeModeStored, paperTradeChecked,
                   paperTradeLabel, startBtnDisabled, startFetches, startLog, lastStart, symVars, extVars>>

\* A click on Start: startAlgoAgent up to its await of /api/algo/start.
StartClick ==
    /\ sectionsUnlocked /\ ~startBtnDisabled
    /\ Len(startFetches) < MaxStarts
    /\ LET trade_mode == tradeModeFromToggles(paperTradeChecked, backtestChecked)
       IN  /\ startFetches' = Append(startFetches, trade_mode)
           /\ lastStart' = [paperChecked |-> paperTradeChecked,
                            backtestChecked |-> backtestChecked,
                            trade_mode |-> trade_mode]
    /\ UNCHANGED <<wsVars, panelVars, pollVars, tradeModeStored, paperTradeChecked,
                   paperTradeLabel, backtestChecked, startBtnDisabled, startLog, symVars, extVars>>

StartOutcomes == {"success", "failure", "throw"}

\* startAlgoAgent after the awaits: the log line, and the button in finally.
StartResponse(i, outcome) ==
    /\ i \in 1..Len(startFetches)
    /\ startLog' = IF outcome = "throw" THEN "error"
                   ELSE IF outcome = "failure" THEN "failed"
                   ELSE IF startFetches[i] = "live" THEN "started LIVE"
                   ELSE IF startFetches[i] = "backtest" THEN "started BACKTEST"
                   ELSE "started PAPER"
    /\ startFetches' = RemoveAt(startFetches, i)
    /\ startBtnDisabled' = FALSE
    /\ UNCHANGED <<wsVars, panelVars, pollVars, tradeModeStored, paperTradeChecked,
                   paperTradeLabel, backtestChecked, lastStart, symVars, extVars>>

\* updateAgentStatus after its awaits, as far as the Start button goes:
\* disabled while the backend reports the agent running.
AgentStatusResponse(is_running) ==
    /\ sectionsUnlocked
    /\ startBtnDisabled' = is_running
    /\ startBtnDisabled' # startBtnDisabled
    /\ UNCHANGED <<wsVars, panelVars, pollVars, tradeModeStored, paperTradeChecked,
                   paperTradeLabel, backtestChecked, startFetches, startLog, lastStart, symVars, extVars>>

\* ------------------------------------------------------------ watchlist symbols

defaultSymbols == <<"NIFTY50", "BANKNIFTY", "FINNIFTY", "GIFTNIFTY", "SENSEX">>

\* What the user types into the symbol box, and String.toUpperCase on it.
TypedSymbols == {"tcs", "TCS", "Reliance", "nifty50", "SENSEX"}
toUpperCase(text) ==
    CASE text = "tcs" -> "TCS"
      [] text = "Reliance" -> "RELIANCE"
      [] text = "nifty50" -> "NIFTY50"
      [] OTHER -> text

Range(seq) == { seq[k] : k \in DOMAIN seq }

\* [...new Set(list)]: the distinct elements in the order of first occurrence.
RECURSIVE SetSpread(_, _)
SetSpread(seen, list) ==
    IF list = <<>> THEN seen
    ELSE SetSpread(IF Head(list) \in Range(seen) THEN seen ELSE Append(seen, Head(list)),
                   Tail(list))

\* The merge that concatenates the two lists.
mergeSymbols_Concat(defaults, custom) == defaults \o custom

\* const allSymbols = [...new Set([...defaultSymbols, ...customWatchlistSymbols])]
mergeSymbols(defaults, custom) == SetSpread(<<>>, defaults \o custom)

\* The user adds a symbol: it is case-normalized and joins the list unless it
\* is there already.
AddSymbol(text) ==
    LET sym == toUpperCase(text) IN
    /\ sym \notin Range(customWatchlistSymbols)
    /\ Len(customWatchlistSymbols) < MaxCustom
    /\ customWatchlistSymbols' = Append(customWatchlistSymbols, sym)
    /\ UNCHANGED <<wsVars, panelVars, pollVars, modeVars, allSymbols, fetchedFor, extVars>>

\* The user removes a symbol of the list.
RemoveSymbol(sym) ==
    /\ sym \in Range(customWatchlistSymbols)
    /\ customWatchlistSymbols' = SelectSeq(customWatchlistSymbols, LAMBDA x : x # sym)
    /\ UNCHANGED <<wsVars, panelVars, pollVars, modeVars, allSymbols, fetchedFor, extVars>>

\* fetchAlgoWatchlist: the symbol list of the quote request.
FetchAlgoWatchlist ==
    /\ allSymbols' = mergeSymbols(defaultSymbols, customWatchlistSymbols)
    /\ fetchedFor' = [fetched |-> TRUE, custom |-> customWatchlistSymbols]
    /\ fetchedFor' # fetchedFor
    /\ UNCHANGED <<wsVars, panelVars, pollVars, modeVars, customWatchlistSymbols, extVars>>

\* --------------------------------------------------------------- watchlist tables

\* What the backend knows of a symbol: its change, in hundredths of a percent.
StockChange(sym) ==
    CASE sym = "SENSEX" -> 150
      [] sym = "TCS" -> -75
      [] sym = "NIFTY50" -> 20
      [] OTHER -> 0

Stock(sym) == [symbol |-> sym, change |-> StockChange(sym)]

\* The answer to a quote request for symbols: one stock per symbol, in the
\* order of the request.
StocksFor(symbols) == [k \in DOMAIN symbols |-> Stock(symbols[k])]

Symbols(stocks) == [k \in DOMAIN stocks |-> stocks[k].symbol]

\* Array.slice(0, n)
Slice0(seq, n) == SubSeq(seq, 1, Min(n, Len(seq)))

\* displayAlgoWatchlistTable(stocks): the rows of the table, one per stock in
\* the order given, the first ten unless Show More is on.
displayAlgoWatchlistTable(stocks, showMore) ==
    LET rows == IF showMore THEN stocks ELSE Slice0(stocks, AlgoTopRows)
    IN  Symbols(rows)

\* The items /api/watchlist can answer with.
WatchItems == { Stock("SENSEX"), Stock("TCS"), Stock("RELIANCE") }
WatchlistPayloads == UNION { [1..n -> WatchItems] : n \in 0..MaxItems }

\* items.slice().sort((a, b) => ca - cb): a stable sort by change, ascending.
RECURSIVE InsertByChange(_, _)
InsertByChange(sorted, item) ==
    IF sorted = <<>> THEN <<item>>
    ELSE IF item.change < Head(sorted).change THEN <<item>> \o sorted
    ELSE <<Head(sorted)>> \o InsertByChange(Tail(sorted), item)

RECURSIVE SortByChange(_, _)
SortByChange(sorted, items) ==
    IF items = <<>> THEN sorted
    ELSE SortByChange(InsertByChange(sorted, Head(items)), Tail(items))

\* displayWatchlist(items): no rows (the placeholder) for an empty list, else
\* one row per item, sorted by change.
displayWatchlist(items) ==
    IF items = <<>> THEN <<>>
    ELSE Symbols(SortByChange(<<>>, items))

\* The answer to the latest fetch of fetchAlgoWatchlist arrives: the table is
\* drawn from it (from an empty list when the backend reports no success).
AlgoWatchlistResponse(ok) ==
    /\ fetchedFor.fetched
    /\ LET combinedData == IF ok THEN StocksFor(allSymbols) ELSE <<>>
       IN  /\ algoWatchlistFull' = combinedData
           /\ watchlistTabContent' =
                 displayAlgoWatchlistTable(combinedData, algoWatchlistShowMore)
    /\ UNCHANGED <<wsVars, panelVars, pollVars, modeVars, symVars, extButWatchlist, algoWatchlistShowMore,
                   watchlistFetches, watchlistData>>

\* refreshWatchlist up to its await (the Refresh button of the watchlist, or
\* verifyOtp).
RefreshWatchlistCall ==
    /\ watchlistFetches < MaxWatchlistFetches
    /\ watchlistFetches' = watchlistFetches + 1
    /\ UNCHANGED <<wsVars, panelVars, pollVars, modeVars, symVars, extButWatchlist,
                   algoWatchlistFull, algoWatchlistShowMore, watchlistTabContent, watchlistData>>

\* refreshWatchlist after the awaits: displayWatchlist for a non-empty list,
\* the placeholder otherwise; a throw leaves the table as it is.
RefreshWatchlistResponse(items, thrown) ==
    /\ watchlistFetches > 0
    /\ watchlistFetches' = watchlistFetches - 1
    /\ watchlistData' = IF thrown THEN watchlistData ELSE displayWatchlist(items)
    /\ UNCHANGED <<wsVars, panelVars, pollVars, modeVars, symVars, extButWatchlist,
                   algoWatchlistFull, algoWatchlistShowMore, watchlistTabContent>>

\* ------------------------------------------------- strategy configuration form

\* What the four inputs of the configuration form can hold, and parseInt of it.
ConfigTexts == {"5", "20", "500", "1000"}
parseInt(text) ==
    CASE text = "5" -> Num(5)
      [] text = "20" -> Num(20)
      [] text = "500" -> Num(500)
      [] text = "1000" -> Num(1000)
      [] OTHER -> NaN

ConfigFields == {"profitLockThreshold", "trailingSL", "minGainTarget", "maxPositions"}

\* The user edits one input of the form.
ConfigInput(field, text) ==
    /\ configForm[field] # text
    /\ configForm' = [configForm EXCEPT ![field] = text]
    /\ UNCHANGED <<wsVars, panelVars, pollVars, modeVars, symVars, extButConfig,
                   backendConfig, savedConfig, notification>>

\* saveConfiguration: the config object is built from the form and the success
\* notification is shown; the function makes no request.
saveConfiguration ==
    /\ savedConfig' =
          [ profit_lock_threshold |-> parseInt(configForm["profitLockThreshold"]),
            trailing_sl |-> parseInt(configForm["trailingSL"]),
            min_gain_target |-> parseInt(configForm["minGainTarget"]),
            max_positions |-> parseInt(configForm["maxPositions"]) ]
    /\ notification' = "Configuration saved successfully"
    /\ UNCHANGED <<wsVars, panelVars, pollVars, modeVars, symVars, extButConfig,
                   configForm, backendConfig>>

\* ------------------------------------------------------- sections and navigation

Sections == {"auth", "market", "account", "watchlist"}

\* showDashboardPage / showWatchlistPage: style.display of each main section.
showDashboardPage == [sec \in Sections |-> IF sec = "watchlist" THEN "none" ELSE ""]
showWatchlistPage == [sec \in Sections |-> IF sec = "watchlist" THEN "" ELSE "none"]

\* setSectionsLocked(locked), as far as style.display goes.
setSectionsLocked(display, locked) ==
    [sec \in Sections |-> IF sec \in {"market", "watchlist", "account"}
                          THEN (IF locked THEN "none" ELSE "")
                          ELSE display[sec]]

\* The interval timer of the watchlist page: w is [interval, timers], the
\* handle watchlistInterval (set or null) and the number of live timers.
\* clearInterval(watchlistInterval) ends the timer the handle names.
clearWatchlistInterval(w) ==
    IF w.interval THEN [w EXCEPT !.timers = @ - 1] ELSE w

\* The startWatchlistAutoRefresh of a page that does not clear the timer it
\* replaces.
startWatchlistAutoRefresh_NoClear(w) ==
    [w EXCEPT !.interval = TRUE, !.timers = @ + 1]

startWatchlistAutoRefresh(w) ==
    [clearWatchlistInterval(w) EXCEPT !.interval = TRUE, !.timers = @ + 1]

stopWatchlistAutoRefresh(w) ==
    [clearWatchlistInterval(w) EXCEPT !.interval = FALSE]

WInterval == [interval |-> watchlistInterval, timers |-> watchlistTimers]

CommitInterval(w) ==
    /\ watchlistInterval' = w.interval
    /\ watchlistTimers' = w.timers

\* The callback of the interval: it calls refreshWatchlist when the watchlist
\* section is there and its style.display is not 'none'.
watchlistIntervalTick(display) == display["watchlist"] # "none"

\* Click on the Dashboard entry of the navigation bar: showDashboardPage, which
\* also stops the auto-refresh of the watchlist.
NavDashboardClick ==
    /\ sectionDisplay' = showDashboardPage
    /\ CommitInterval(stopWatchlistAutoRefresh(WInterval))
    /\ lastNav' = "dashboard"
    /\ UNCHANGED <<timerRefreshHidden, timerRestarted>>
    /\ sectionVars' # sectionVars
    /\ UNCHANGED <<wsVars, panelVars, pollVars, modeVars, symVars, extButSections>>

\* Click on the Market Movers entry: showWatchlistPage, which calls
\* refreshWatchlist and starts the auto-refresh.
NavWatchlistClick ==
    /\ watchlistFetches < MaxWatchlistFetches
    /\ sectionDisplay' = showWatchlistPage
    /\ watchlistFetches' = watchlistFetches + 1
    /\ CommitInterval(startWatchlistAutoRefresh(WInterval))
    /\ lastNav' = "watchlist"
    /\ timerRestarted' = (timerRestarted \/ watchlistInterval)
    /\ UNCHANGED timerRefreshHidden
    /\ UNCHANGED <<wsVars, panelVars, pollVars, modeVars, symVars, configVars, histVars, agentVars, tabVars, loadVars,
                   algoWatchlistFull, algoWatchlistShowMore, watchlistTabContent, watchlistData>>

\* The 10 s interval of startWatchlistAutoRefresh: refreshWatchlist while the
\* watchlist section is displayed.
WatchlistIntervalFires ==
    /\ watchlistTimers > 0
    /\ watchlistIntervalTick(sectionDisplay)
    /\ watchlistFetches < MaxWatchlistFetches
    /\ watchlistFetches' = watchlistFetches + 1
    /\ timerRefreshHidden' = (timerRefreshHidden \/ sectionDisplay["watchlist"] = "none")
    /\ UNCHANGED <<wsVars, panelVars, pollVars, modeVars, symVars, configVars, histVars, agentVars, tabVars, loadVars,
                   sectionDisplay, watchlistInterval, watchlistTimers, lastNav, timerRestarted,
                   algoWatchlistFull, algoWatchlistShowMore, watchlistTabContent, watchlistData>>

\* ------------------------------------------- Start / Stop buttons of the agent

\* What a call of /api/algo/start or /api/algo/stop comes back with.
AgentOutcomes == {"success", "failure", "throw"}

\* The synchronous head of updateAgentStatus: the fetch of /api/algo/status,
\* answered with the is_running of the moment; a call beyond MaxStatus
\* unanswered fetches is left out.
updateAgentStatus(fetches, is_running) ==
    IF Len(fetches) < MaxStatus THEN Append(fetches, is_running) ELSE fetches

\* startAlgoAgent up to its await: Start is disabled and /api/algo/start is
\* called; the backend starts the agent when it answers success.
startAlgoAgent ==
    /\ sectionsUnlocked /\ ~agentStartDisabled
    /\ Len(agentStarts) < MaxAgentCalls
    /\ agentStartDisabled' = TRUE
    /\ \E outcome \in AgentOutcomes :
         /\ agentStarts' = Append(agentStarts, outcome)
         /\ agentRunning' = (agentRunning \/ outcome = "success")
    /\ UNCHANGED <<wsVars, panelVars, pollVars, modeVars, symVars, extButAgent,
                   agentStopDisabled, agentStops, statusFetches, statusSeen>>

\* startAlgoAgent after the awaits: updateAgentStatus() unless the fetch
\* threw, and Start enabled again in finally.
startAlgoAgentContinues(i) ==
    /\ i \in 1..Len(agentStarts)
    /\ agentStarts' = RemoveAt(agentStarts, i)
    /\ statusFetches' = IF agentStarts[i] = "throw" THEN statusFetches
                        ELSE updateAgentStatus(statusFetches, agentRunning)
    /\ agentStartDisabled' = FALSE
    /\ UNCHANGED <<wsVars, panelVars, pollVars, modeVars, symVars, extButAgent,
                   agentStopDisabled, agentStops, agentRunning, statusSeen>>

\* stopAlgoAgent up to its await: Stop is disabled and /api/algo/stop is
\* called; the backend stops the agent when it answers success.
stopAlgoAgent ==
    /\ sectionsUnlocked /\ ~agentStopDisabled
    /\ Len(agentStops) < MaxAgentCalls
    /\ agentStopDisabled' = TRUE
    /\ \E outcome \in AgentOutcomes :
         /\ agentStops' = Append(agentStops, outcome)
         /\ agentRunning' = (agentRunning /\ outcome # "success")
    /\ UNCHANGED <<wsVars, panelVars, pollVars, modeVars, symVars, extButAgent,
                   agentStartDisabled, agentStarts, statusFetches, statusSeen>>

\* stopAlgoAgent after the awaits: updateAgentStatus() unless the fetch threw,
\* and Stop enabled again in finally.
stopAlgoAgentContinues(i) ==
    /\ i \in 1..Len(agentStops)
    /\ agentStops' = RemoveAt(agentStops, i)
    /\ statusFetches' = IF agentStops[i] = "throw" THEN statusFetches
                        ELSE updateAgentStatus(statusFetches, agentRunning)
    /\ agentStopDisabled' = FALSE
    /\ UNCHANGED <<wsVars, panelVars, pollVars, modeVars, symVars, extButAgent,
                   agentStartDisabled, agentStarts, agentRunning, statusSeen>>

\* setInterval(updateAgentStatus, 5000).
StatusTimerFires ==
    /\ sectionsUnlocked
    /\ Len(statusFetches) < MaxStatus
    /\ statusFetches' = updateAgentStatus(statusFetches, agentRunning)
    /\ UNCHANGED <<wsVars, panelVars, pollVars, modeVars, symVars, extButAgent,
                   agentStartDisabled, agentStopDisabled, agentStarts, agentStops,
                   agentRunning, statusSeen>>

\* updateAgentStatus after its awaits: the button states follow
\* data.is_running; a throw leaves them as they are.
updateAgentStatusContinues(i, thrown) ==
    /\ i \in 1..Len(statusFetches)
    /\ statusFetches' = RemoveAt(statusFetches, i)
    /\ IF thrown
       THEN UNCHANGED <<agentStartDisabled, agentStopDisabled, statusSeen>>
       ELSE /\ agentStartDisabled' = statusFetches[i]
            /\ agentStopDisabled' = ~statusFetches[i]
            /\ statusSeen' = TRUE
    /\ UNCHANGED <<wsVars, panelVars, pollVars, modeVars, symVars, extButAgent,
                   agentStarts, agentStops, agentRunning>>

\* ------------------------------------------------------------- watchlist tabs

\* The tabs of the watchlist panel (data-tab of the .watchlist-tab buttons).
WatchlistTabs == {"algo_top10", "user"}

\* What the endpoint of a tab can answer: a list of stocks (possibly empty),
\* success = false, or a fetch that throws.
TabAnswers(tab) ==
    { [kind |-> "error", data |-> <<>>], [kind |-> "throw", data |-> <<>>],
      [kind |-> "data", data |-> <<>>] }
    \cup { [kind |-> "data", data |-> StocksFor(l)] :
             l \in IF tab = "algo_top10" THEN { <<"NIFTY50", "SENSEX">> }
                   ELSE { <<"TCS">>, <<"TCS", "RELIANCE">> } }

\* The synchronous part of fetchWatchlistTab(tab): the Loading placeholder
\* unless silent, then the fetch of the tab; for algo_top10 that is
\* fetchAlgoWatchlist, which fetches only while that tab is the current one.
\* t is [current, fetches, content, contentOf].
fetchAlgoWatchlistCall(t) ==
    IF t.current # "algo_top10" THEN t
    ELSE [t EXCEPT !.fetches = Append(@, "algo_top10")]

fetchWatchlistTab(t, tab, silent) ==
    LET loading == IF silent THEN t ELSE [t EXCEPT !.content = <<>>, !.contentOf = tab]
    IN  IF tab = "algo_top10" THEN fetchAlgoWatchlistCall(loading)
        ELSE [loading EXCEPT !.fetches = Append(@, tab)]

setActiveWatchlistTab(t, tab) == fetchWatchlistTab([t EXCEPT !.current = tab], tab, FALSE)

T == [current |-> currentWatchlistTab, fetches |-> tabFetches,
      content |-> watchlistTabContent, contentOf |-> tabContentOf]

CommitTabs(t) ==
    /\ currentWatchlistTab' = t.current
    /\ tabFetches' = t.fetches
    /\ watchlistTabContent' = t.content
    /\ tabContentOf' = t.contentOf

\* Click on a tab button.
WatchlistTabClick(tab) ==
    /\ Len(tabFetches) < MaxTabFetches
    /\ CommitTabs(setActiveWatchlistTab(T, tab))
    /\ UNCHANGED <<wsVars, panelVars, pollVars, modeVars, symVars, extButWatchlistTabs,
                   algoWatchlistFull, algoWatchlistShowMore, watchlistFetches, watchlistData>>

\* setInterval(fetchAlgoWatchlist, 10000); a tick while another tab is the
\* current one returns at once.
AlgoWatchlistTimerFires ==
    /\ Len(tabFetches) < MaxTabFetches
    /\ currentWatchlistTab = "algo_top10"
    /\ CommitTabs(fetchAlgoWatchlistCall(T))
    /\ UNCHANGED <<wsVars, panelVars, pollVars, modeVars, symVars, extButWatchlistTabs,
                   algoWatchlistFull, algoWatchlistShowMore, watchlistFetches, watchlistData>>

\* The then / catch handlers of a tab fetch.  The algo handlers draw the table
\* with displayAlgoWatchlistTable or write the error placeholder (the catch
\* only while algo_top10 is the current tab); the handlers of the other tabs
\* write their table or placeholder.
WatchlistTabResponse(i, answer) ==
    /\ i \in 1..Len(tabFetches)
    /\ answer \in TabAnswers(tabFetches[i])
    /\ tabFetches' = RemoveAt(tabFetches, i)
    /\ UNCHANGED currentWatchlistTab
    /\ LET tab == tabFetches[i]
           skipped == tab = "algo_top10" /\ answer.kind = "throw"
                          /\ currentWatchlistTab # "algo_top10"
       IN  /\ IF skipped
              THEN UNCHANGED <<watchlistTabContent, tabContentOf>>
              ELSE /\ tabContentOf' = tab
                   /\ watchlistTabContent' =
                         IF answer.kind # "data" THEN <<>>
                         ELSE IF tab = "algo_top10"
                         THEN displayAlgoWatchlistTable(answer.data, algoWatchlistShowMore)
                         ELSE Symbols(answer.data)
           /\ algoWatchlistFull' =
                 IF tab = "algo_top10" /\ answer.kind = "data" THEN answer.data
                 ELSE algoWatchlistFull
    /\ UNCHANGED <<wsVars, panelVars, pollVars, modeVars, symVars, extButWatchlistTabs,
                   algoWatchlistShowMore, watchlistFetches, watchlistData>>

\* ------------------------------------------------------ unlocking at page load

\* The elements setupUnlockedSections adds a listener to.
ListenerTargets == {"startBtn", "stopBtn", "refreshDataBtn", "refreshAccountBtn",
                    "refreshWatchlistBtn", "paperTradeToggle", "wsToggle",
                    "wsConnectBtn", "wsDisconnectBtn"}

\* localStorage.getItem('ws_enabled'): "null" when nothing is stored.
StoredWsPrefs == {"null", "true", "false"}

\* The pages the script can be loaded on: whether the page has an auth
\* section, what cfg.access_token_valid is (false also stands for a page
\* without cfg), and which of the elements exist.  refreshBtns stands for
\* refreshDataBtn and refreshAccountBtn, the two elements
\* setupUnlockedSections uses unguarded.
Pages == [authSection : BOOLEAN, tokenValid : BOOLEAN, refreshBtns : BOOLEAN,
          startBtn : BOOLEAN, stopBtn : BOOLEAN, wsToggle : BOOLEAN]

\* Whether element b exists on page pg.
HasElement(pg, b) ==
    CASE b \in {"refreshDataBtn", "refreshAccountBtn"} -> pg.refreshBtns
      [] b = "startBtn" -> pg.startBtn
      [] b = "stopBtn" -> pg.stopBtn
      [] b = "wsToggle" -> pg.wsToggle
      [] OTHER -> TRUE

\* The state the unlock code works on before it has run: st is
\* [windowSectionsUnlocked, setupRuns, intervals, listeners] with
\* unlocked (setSectionsLocked(false) was called), authHidden, completed
\* (setupUnlockedSections has run to its end) and thrown.
NotSetUp ==
    [windowSectionsUnlocked |-> FALSE, setupRuns |-> 0,
     intervals |-> [status |-> 0, market |-> 0],
     listeners |-> [b \in ListenerTargets |-> 0],
     unlocked |-> FALSE, authHidden |-> FALSE, completed |-> FALSE, thrown |-> FALSE]

\* setupUnlockedSections: the guarded listeners of startBtn and stopBtn, then
\* refreshDataBtn.addEventListener, which throws a TypeError on a page
\* without that button; then the other listeners and the two intervals.
setupUnlockedSections(st, pg) ==
    LET first == {"startBtn", "stopBtn"}
        reg(bs) == [b \in ListenerTargets |->
                      IF b \in bs /\ HasElement(pg, b) THEN st.listeners[b] + 1
                      ELSE st.listeners[b]]
    IN  IF ~pg.refreshBtns
        THEN [st EXCEPT !.setupRuns = @ + 1, !.listeners = reg(first), !.thrown = TRUE]
        ELSE [st EXCEPT !.setupRuns = @ + 1, !.listeners = reg(ListenerTargets),
                        !.intervals = [status |-> @.status + 1, market |-> @.market + 1],
                        !.completed = TRUE]

\* The unlock that calls setupUnlockedSections whatever the flag is.
unlockOnce_Unguarded(st, pg) ==
    LET s == setupUnlockedSections(st, pg)
    IN  IF s.thrown THEN s ELSE [s EXCEPT !.windowSectionsUnlocked = TRUE]

\* if (!window._sectionsUnlocked) { setupUnlockedSections();
\* window._sectionsUnlocked = true; }
unlockOnce(st, pg) ==
    IF st.windowSectionsUnlocked THEN st
    ELSE LET s == setupUnlockedSections(st, pg)
         IN  IF s.thrown THEN s ELSE [s EXCEPT !.windowSectionsUnlocked = TRUE]

\* The unlock paths of the DOMContentLoaded handler: the page without an auth
\* section (a throw there leaves the handler), then, inside try / catch, the
\* token that is already valid.
unlockAtLoad(pg) ==
    LET s1 == IF ~pg.authSection
              THEN unlockOnce([NotSetUp EXCEPT !.unlocked = TRUE], pg)
              ELSE NotSetUp
    IN  IF s1.thrown THEN s1
        ELSE IF pg.tokenValid
        THEN [unlockOnce([s1 EXCEPT !.unlocked = TRUE, !.authHidden = pg.authSection], pg)
                 EXCEPT !.thrown = FALSE]
        ELSE s1

\* The restore of the WebSocket toggle in setupUnlockedSections.
restoreWsToggle(pref) == IF pref = "null" THEN TRUE ELSE pref = "true"

\* The DOMContentLoaded handler from its unlock paths on, with what
\* setSectionsLocked(false) and a setupUnlockedSections that ran to its end
\* leave behind: the sections and buttons, the restored toggles, the market
\* poll, and the calls of initWebSocketIfConfigured and updateAgentStatus.
\* pref is what localStorage holds for ws_enabled.
UnlockAtLoad(pref) ==
    /\ ~pageLoaded
    /\ pageLoaded' = TRUE
    /\ UNCHANGED page
    /\ LET st == unlockAtLoad(page)
           checked == IF st.completed /\ page.wsToggle
                      THEN restoreWsToggle(pref) ELSE wsToggleChecked
           mode == IF st.completed THEN restoreTradeMode(tradeModeStored)
                   ELSE [checked |-> paperTradeChecked, label |-> paperTradeLabel]
       IN  /\ windowSectionsUnlocked' = st.windowSectionsUnlocked
           /\ setupRuns' = st.setupRuns
           /\ intervals' = st.intervals
           /\ listeners' = st.listeners
           /\ sectionsUnlocked' = st.completed
           /\ wsToggleChecked' = checked
           /\ configFetches' = IF st.completed /\ page.wsToggle /\ checked THEN 1 ELSE 0
           /\ wsDisconnectBtnDisabled' = ~st.unlocked
           /\ refreshDataBtnDisabled' = ~(st.unlocked /\ page.refreshBtns)
           /\ pollTimer' = IF st.intervals.market > 0 THEN PollPeriodTicks ELSE -1
           /\ paperTradeChecked' = mode.checked
           /\ paperTradeLabel' = mode.label
           /\ sectionDisplay' =
                 IF ~st.unlocked THEN sectionDisplay
                 ELSE setSectionsLocked(
                        [sectionDisplay EXCEPT !["auth"] = IF st.authHidden THEN "none" ELSE @],
                        FALSE)
           /\ statusFetches' = IF st.completed THEN updateAgentStatus(statusFetches, agentRunning)
                               ELSE statusFetches
    /\ UNCHANGED <<sockets, marketSocket, reconnectAttempts, reconnectTimers, wsStatus,
                   wsConnectBtnDisabled, wsEndpoint, accessTokenValid, lastDelay,
                   scheduledSinceOpen, hbClosed, verifyOtpPhase, panelVars,
                   marketFetches, marketLog, sinceIssue, lastResponse, staleOverFresh,
                   renderedUnder, tradeModeStored, backtestChecked, startBtnDisabled,
                   startFetches, startLog, lastStart, symVars, watchVars, configVars,
                   histVars, watchlistInterval, watchlistTimers, lastNav,
                   timerRefreshHidden, timerRestarted, agentStartDisabled,
                   agentStopDisabled, agentStarts, agentStops, agentRunning, statusSeen,
                   tabVars>>

\* The page after DOMContentLoaded.  With cfg.access_token_valid the sections
\* are unlocked and setupUnlockedSections has restored the toggle and, with the
\* toggle checked, called initWebSocketIfConfigured; otherwise the page is locked.
InitWs ==
    /\ sockets = [s \in SockIds |-> NoSocket]
    /\ marketSocket = Null
    /\ reconnectAttempts = 0
    /\ reconnectTimers = EmptyBag
    /\ wsToggleChecked \in BOOLEAN
    /\ sectionsUnlocked \in BOOLEAN
    /\ accessTokenValid = sectionsUnlocked
    /\ wsEndpoint \in {"none", "ok", "bad"}
    /\ wsStatus = "disconnected"
    /\ wsConnectBtnDisabled = FALSE
    /\ wsDisconnectBtnDisabled = ~sectionsUnlocked
    /\ configFetches = IF sectionsUnlocked /\ wsToggleChecked THEN 1 ELSE 0
    /\ lastDelay = 0
    /\ scheduledSinceOpen = 0
    /\ hbClosed = FALSE
    /\ verifyOtpPhase = "idle"

InitPanel ==
    /\ marketData = [placeholder |-> "Loading", items |-> <<>>]
    /\ lastDisplayed = [kind |-> "never"]

\* No refreshMarketData call has been made; the interval timer exists once
\* setupUnlockedSections has run, and setSectionsLocked has set the button.
InitPoll ==
    /\ refreshDataBtnDisabled = ~sectionsUnlocked
    /\ marketFetches = <<>>
    /\ marketLog = "none"
    /\ pollTimer = IF sectionsUnlocked THEN PollPeriodTicks ELSE -1
    /\ sinceIssue = 0
    /\ lastResponse = NoResponse
    /\ staleOverFresh = FALSE
    /\ renderedUnder = "never"

\* setupUnlockedSections has restored the trade mode from localStorage.  (On a
\* locked page nothing is restored and no listener exists; the toggle is taken
\* as checked there.)
InitMode ==
    /\ tradeModeStored \in StoredModes
    /\ LET t == IF sectionsUnlocked THEN restoreTradeMode(tradeModeStored)
                ELSE [checked |-> TRUE, label |-> "Paper Trade"]
       IN  paperTradeChecked = t.checked /\ paperTradeLabel = t.label
    /\ backtestChecked = FALSE
    /\ startBtnDisabled = FALSE
    /\ startFetches = <<>>
    /\ startLog = "none"
    /\ lastStart = NoStart

InitSymbols ==
    /\ customWatchlistSymbols = <<>>
    /\ allSymbols = <<>>
    /\ fetchedFor = [fetched |-> FALSE, custom |-> <<>>]

\* No watchlist has been fetched.  Show More is off: its button exists only
\* on a table of more than ten stocks.
InitWatchlist ==
    /\ algoWatchlistFull = <<>>
    /\ algoWatchlistShowMore = FALSE
    /\ watchlistTabContent = <<>>
    /\ watchlistFetches = 0
    /\ watchlistData = <<>>

\* The form and the backend hold the default strategy parameters.
InitConfig ==
    /\ configForm = [f \in ConfigFields |->
                        CASE f = "profitLockThreshold" -> "500"
                          [] f = "trailingSL" -> "20"
                          [] f = "minGainTarget" -> "1000"
                          [] f = "maxPositions" -> "5"]
    /\ backendConfig = [profit_lock_threshold |-> Num(500), trailing_sl |-> Num(20),
                        min_gain_target |-> Num(1000), max_positions |-> Num(5)]
    /\ savedConfig = backendConfig
    /\ notification = "none"

\* setSectionsLocked(true), and with cfg.access_token_valid the auth section is
\* hidden and setSectionsLocked(false) follows.
InitSections ==
    /\ sectionDisplay =
          IF sectionsUnlocked
          THEN setSectionsLocked([sec \in Sections |-> IF sec = "auth" THEN "none" ELSE ""], FALSE)
          ELSE setSectionsLocked([sec \in Sections |-> ""], TRUE)
    /\ watchlistInterval = FALSE
    /\ watchlistTimers = 0
    /\ lastNav = "none"
    /\ timerRefreshHidden = FALSE
    /\ timerRestarted = FALSE

\* The buttons as the markup has them, taken as enabled.
InitAgentButtons ==
    /\ agentStartDisabled = FALSE
    /\ agentStopDisabled = FALSE

\* setupUnlockedSections has called updateAgentStatus; the agent does not run.
InitAgent ==
    /\ agentStarts = <<>>
    /\ agentStops = <<>>
    /\ agentRunning = FALSE
    /\ statusFetches = IF sectionsUnlocked THEN <<agentRunning>> ELSE <<>>
    /\ statusSeen = FALSE

\* The script has called setActiveWatchlistTab('algo_top10') and then
\* fetchAlgoWatchlist(): the Loading placeholder and two fetches.
InitTabs ==
    /\ currentWatchlistTab = "algo_top10"
    /\ tabFetches = <<"algo_top10", "algo_top10">>
    /\ tabContentOf = "algo_top10"

\* The dashboard page: it has the auth section and every element, and the
\* handler has run on it.
DashboardPage ==
    [authSection |-> TRUE, tokenValid |-> sectionsUnlocked, refreshBtns |-> TRUE,
     startBtn |-> TRUE, stopBtn |-> TRUE, wsToggle |-> TRUE]

InitLoaded ==
    /\ page = DashboardPage
    /\ pageLoaded = TRUE
    /\ LET st == unlockAtLoad(page)
       IN  /\ windowSectionsUnlocked = st.windowSectionsUnlocked
           /\ setupRuns = st.setupRuns
           /\ intervals = st.intervals
           /\ listeners = st.listeners

InitExtButButtons ==
    /\ InitWatchlist /\ InitConfig /\ manualDisconnect = FALSE /\ InitSections /\ InitAgent
    /\ InitTabs /\ InitLoaded

InitExt == InitExtButButtons /\ InitAgentButtons

\* The page at load with nothing stored in localStorage for the trade mode.
Init ==
    /\ InitWs /\ InitPanel /\ InitPoll /\ InitMode /\ InitSymbols /\ InitExt
    /\ tradeModeStored = "null"

\* The steps of the WebSocket feed the toggle drives: connecting, drops and
\* reconnects.
WsFeed ==
    \/ InitContinues
    \/ WsToggleChange
    \/ ReconnectTimerFires
    \/ \E s \in SockIds : SocketOpens(s)
    \/ \E s \in SockIds : SocketDrops(s)
    \/ \E s \in SockIds : SocketClosed(s)

\* The steps that open, close and reconnect the WebSocket on an unlocked page.
WsUnlocked ==
    \/ WsFeed
    \/ WsConnectClick
    \/ WsDisconnectClick
    \/ TokenExpires

NextWs ==
    \/ WsUnlocked
    \/ VerifyOtpClick
    \/ VerifyOtpResponse
    \/ VerifyOtpConfigLoaded

\* The connection management of the WebSocket client, without the passage of
\* time.  The heartbeat timers are armed and cleared but never run: the ping of
\* the interval callback changes no client state, and the timeout callback
\* never runs at all (SpecHb).  Messages are not delivered: onmessage feeds the
\* panel and the heartbeat clock only (SpecHb, SpecPollWs).
SpecWs == Init /\ [][NextWs]_vars

\* The WebSocket client with time: a page that was unlocked at load, against a
\* backend whose endpoint accepts connections.
InitHb == Init /\ sectionsUnlocked /\ wsEndpoint = "ok"

NextHb ==
    \/ WsUnlocked
    \/ \E s \in SockIds : SocketMessage(s)
    \/ \E s \in SockIds : HeartbeatTimer(s)
    \/ Advance

SpecHb == InitHb /\ [][NextHb]_vars

\* REST polling on an unlocked page whose WebSocket feed is off and unconfigured.
InitPollOnly == Init /\ sectionsUnlocked /\ ~wsToggleChecked /\ wsEndpoint = "none"

NextPoll ==
    \/ PollTimerFires
    \/ RefreshClick
    \/ \E i \in 1..MaxInFlight, resp \in MarketResponses : MarketResponse(i, resp)
    \/ PollElapses

SpecPoll == InitPollOnly /\ [][NextPoll]_vars

\* REST polling next to the WebSocket client, against a backend whose endpoint
\* accepts connections and whose /api/market/live answers with one quote.
PollWsResponses ==
    { JsonBody(TRUE, TRUE, SymbolsArray(<<q>>)) : q \in {r \in Quotes : r.symbol = "SENSEX"} }

InitPollWs == Init /\ sectionsUnlocked /\ wsToggleChecked /\ wsEndpoint = "ok"

NextPollWs ==
    \/ WsFeed
    \/ \E s \in SockIds : SocketMessage(s)
    \/ PollTimerFires
    \/ \E i \in 1..MaxInFlight, resp \in PollWsResponses : MarketResponse(i, resp)
    \/ PollElapses

SpecPollWs == InitPollWs /\ [][NextPollWs]_vars

\* The trade mode controls of an unlocked page, for every stored trade mode.
InitModeOnly ==
    /\ InitWs /\ InitPanel /\ InitPoll /\ InitMode /\ InitSymbols /\ InitExt
    /\ sectionsUnlocked /\ ~wsToggleChecked /\ wsEndpoint = "none"

NextMode ==
    \/ PaperTradeToggleChange
    \/ BacktestToggleChange
    \/ StartClick
    \/ \E i \in 1..MaxStarts, outcome \in StartOutcomes : StartResponse(i, outcome)
    \/ \E is_running \in BOOLEAN : AgentStatusResponse(is_running)

SpecMode == InitModeOnly /\ [][NextMode]_vars

\* The watchlist symbols.
NextSymbols ==
    \/ \E text \in TypedSymbols : AddSymbol(text)
    \/ \E sym \in Range(customWatchlistSymbols) : RemoveSymbol(sym)
    \/ FetchAlgoWatchlist

SpecSymbols == InitPollOnly /\ [][NextSymbols]_vars

\* The watchlist tables: the symbols, and the answers that are rendered.
NextWatchlist ==
    \/ NextSymbols
    \/ \E ok \in BOOLEAN : AlgoWatchlistResponse(ok)
    \/ RefreshWatchlistCall
    \/ \E items \in WatchlistPayloads, thrown \in BOOLEAN : RefreshWatchlistResponse(items, thrown)

SpecWatchlist == InitPollOnly /\ [][NextWatchlist]_vars

\* The sections of the page: navigation, verifyOtp and what it starts.
NextSections ==
    \/ NavDashboardClick
    \/ NavWatchlistClick
    \/ WatchlistIntervalFires
    \/ \E items \in WatchlistPayloads, thrown \in BOOLEAN : RefreshWatchlistResponse(items, thrown)
    \/ VerifyOtpClick
    \/ VerifyOtpResponse
    \/ VerifyOtpConfigLoaded
    \/ InitContinues
    \/ \E s \in SockIds : SocketOpens(s)

SpecSections == Init /\ [][NextSections]_vars

\* The Start and Stop buttons of the agent.
NextAgent ==
    \/ startAlgoAgent
    \/ \E i \in 1..MaxAgentCalls : startAlgoAgentContinues(i)
    \/ stopAlgoAgent
    \/ \E i \in 1..MaxAgentCalls : stopAlgoAgentContinues(i)
    \/ StatusTimerFires
    \/ \E i \in 1..MaxStatus, thrown \in BOOLEAN : updateAgentStatusContinues(i, thrown)

\* The unlocked page without a WebSocket feed, whatever the markup says of the
\* two buttons.
InitAgentOnly ==
    /\ InitWs /\ InitPanel /\ InitPoll /\ InitMode /\ InitSymbols /\ InitExtButButtons
    /\ tradeModeStored = "null"
    /\ sectionsUnlocked /\ ~wsToggleChecked /\ wsEndpoint = "none"
    /\ agentStartDisabled \in BOOLEAN
    /\ agentStopDisabled \in BOOLEAN

SpecAgent == InitAgentOnly /\ [][NextAgent]_vars

\* Any page, with the DOMContentLoaded handler at its unlock paths:
\* setSectionsLocked(true) has run, setupUnlockedSections has not, and
\* nothing is stored for the trade mode.
InitBeforeLoad ==
    /\ sockets = [s \in SockIds |-> NoSocket]
    /\ marketSocket = Null
    /\ reconnectAttempts = 0
    /\ reconnectTimers = EmptyBag
    /\ wsToggleChecked = FALSE
    /\ sectionsUnlocked = FALSE
    /\ page \in Pages
    /\ accessTokenValid = page.tokenValid
    /\ wsEndpoint = "none"
    /\ wsStatus = "disconnected"
    /\ wsConnectBtnDisabled = FALSE
    /\ wsDisconnectBtnDisabled = TRUE
    /\ configFetches = 0
    /\ lastDelay = 0
    /\ scheduledSinceOpen = 0
    /\ hbClosed = FALSE
    /\ verifyOtpPhase = "idle"
    /\ InitPanel /\ InitPoll /\ InitMode /\ InitSymbols
    /\ tradeModeStored = "null"
    /\ InitWatchlist /\ InitConfig /\ manualDisconnect = FALSE /\ InitSections /\ InitAgent
    /\ InitAgentButtons /\ InitTabs
    /\ pageLoaded = FALSE
    /\ windowSectionsUnlocked = NotSetUp.windowSectionsUnlocked
    /\ setupRuns = NotSetUp.setupRuns
    /\ intervals = NotSetUp.intervals
    /\ listeners = NotSetUp.listeners

\* The unlocking at page load, on every page.
NextLoad == \E pref \in StoredWsPrefs : UnlockAtLoad(pref)

SpecLoad == InitBeforeLoad /\ [][NextLoad]_vars

\* The tabs of the watchlist panel.
NextTabs ==
    \/ \E tab \in WatchlistTabs : WatchlistTabClick(tab)
    \/ AlgoWatchlistTimerFires
    \/ \E i \in 1..MaxTabFetches, answer \in UNION { TabAnswers(tab) : tab \in WatchlistTabs } :
          WatchlistTabResponse(i, answer)

SpecTabs == InitPollOnly /\ [][NextTabs]_vars

\* The market panel under any calls of displayMarketData.
NextRender == \E data \in RenderPayloads : DisplayMarketData(data)

SpecRender == InitPollOnly /\ [][NextRender]_vars

\* The strategy configuration form of the trading dashboard.
NextConfig ==
    \/ \E field \in ConfigFields, text \in ConfigTexts : ConfigInput(field, text)
    \/ saveConfiguration

SpecConfig == InitPollOnly /\ [][NextConfig]_vars

\* ------------------------------------------------------------------ claims

\* The delays of six consecutive reconnects, in ms.
ExpectedBackoff == <<1000, 2000, 4000, 8000, 16000, 30000>>

\* C1: the n-th reconnect timer scheduled since the last open (n = 1..6) has
\* the delay min(30000, 1000 * 2^(n-1)) ms, that is 1 s, 2 s, 4 s, 8 s, 16 s,
\* 30 s, and no pending reconnect timer has a delay above 30000 ms.
C1_BackoffDelays ==
    /\ lastDelay # 0 =>
          /\ scheduledSinceOpen \in 1..6
          /\ lastDelay = ExpectedBackoff[scheduledSinceOpen]
    /\ \A d \in BagToSet(reconnectTimers) :
          d <= 30000 /\ \E n \in 1..6 : d = ExpectedBackoff[n]

\* The sixth consecutive reconnect has been scheduled, with the capped delay.
C1_Witness == scheduledSinceOpen = 6 /\ lastDelay = 30000 /\ BagIn(30000, reconnectTimers)

\* C2: reconnectAttempts stays within 0..6, at most 6 reconnect timers are
\* scheduled between two opens, and no step taken with reconnectAttempts = 6
\* schedules a reconnect timer.
C2_ReconnectBudget ==
    /\ [](reconnectAttempts \in 0..6 /\ scheduledSinceOpen \in 0..6)
    /\ [][reconnectAttempts = 6 =>
            /\ BagCardinality(reconnectTimers') <= BagCardinality(reconnectTimers)
            /\ scheduledSinceOpen' <= scheduledSinceOpen]_vars

\* The budget is spent: the sixth timer has run, its connection attempt has
\* failed, and attemptReconnect has scheduled nothing more.
C2_Witness ==
    /\ reconnectAttempts = 6 /\ scheduledSinceOpen = 6
    /\ reconnectTimers = EmptyBag
    /\ wsStatus = "error"

\* C3: at most one WebSocket of the dashboard is CONNECTING or OPEN at any time.
C3_SingleConnection ==
    Cardinality({s \in SockIds : sockets[s].readyState \in Live}) <= 1

\* A new socket is open while the socket it replaced is still closing.
C3_Witness ==
    \E s, t \in SockIds :
        /\ s # t
        /\ sockets[s].readyState = "OPEN" /\ marketSocket = s
        /\ sockets[t].readyState = "CLOSING"

\* C4: the heartbeat closes a silent socket: no socket is still OPEN once more
\* than 50 s (a ping interval plus the silence timeout) have passed without an
\* incoming message.
C4_SilentSocketClosed ==
    \A s \in SockIds :
        sockets[s].readyState = "OPEN" =>
            sockets[s].silence <= HeartbeatIntervalTicks + HeartbeatTimeoutTicks

\* What the code does instead: every interval callback clears the pending
\* timeout before it expires, so the timeout callback never runs.
HeartbeatNeverCloses ==
    /\ ~hbClosed
    /\ \A s \in SockIds : sockets[s].hbTimeout # 0

\* The panel shows data and nothing else: one item per element of data.symbols
\* in payload order when that is an array, the placeholder alone otherwise.
RenderedExactly(panel, data) ==
    IF data.kind = "array"
    THEN /\ panel.placeholder = ""
         /\ Len(panel.items) = Len(data.symbols)
         /\ \A k \in 1..Len(data.symbols) : panel.items[k].symbol = data.symbols[k].symbol
    ELSE /\ panel.items = <<>>
         /\ panel.placeholder = "No market data available"

\* A refreshMarketData call has run to its end in this step.
PollFinishes == Len(marketFetches') < Len(marketFetches)

\* C5: market-data polls are never cancelled or coalesced.  A timer tick or a
\* Refresh click adds its call to the calls in flight and leaves the others in
\* flight; a call leaves only by processing its own response, one per step; and
\* every response that carries data to render overwrites the table, whether or
\* not a later call has rendered already.  (That stale data then replaces
\* fresh data is the witness.)
C5_PollsNeverCancelled ==
    [][ /\ (PollTimerFires \/ RefreshClick) =>
              marketFetches' = Append(marketFetches, NewFetch)
        /\ PollFinishes =>
              /\ Len(marketFetches') = Len(marketFetches) - 1
              /\ (lastResponse'.kind = "json" /\ (lastResponse'.success \/ lastResponse'.hasData))
                    => /\ RenderedExactly(marketData', lastResponse'.data)
                       /\ lastDisplayed' = lastResponse'.data ]_vars

\* The response to an older call was rendered over the response to a newer one,
\* and a call is in flight again.
C5_Witness == staleOverFresh /\ marketFetches # <<>> /\ lastDisplayed.kind = "array"

\* C6: once setupUnlockedSections has run the poll timer exists and
\* refreshMarketData is called every poll period (never more than one period
\* passes without a call), and every successful response is rendered, in every
\* situation of the WebSocket: connected, disconnected, disabled by the user or
\* out of reconnect attempts.
C6_PollingRegardlessOfWs ==
    /\ [](sectionsUnlocked => pollTimer \in 0..PollPeriodTicks /\ sinceIssue <= PollPeriodTicks)
    /\ [][ (PollFinishes /\ lastResponse'.success)
              => /\ RenderedExactly(marketData', lastResponse'.data)
                 /\ renderedUnder' = WsSituation ]_vars

\* The WebSocket has used up its 6 reconnect attempts; a poll rendered its
\* response in that situation and the next poll is already in flight.
C6_Witness ==
    /\ WsSituation = "exhausted" /\ reconnectAttempts = MAX_RECONNECT_ATTEMPTS
    /\ renderedUnder = "exhausted"
    /\ marketFetches # <<>> /\ sinceIssue = 0
    /\ RenderedExactly(marketData, lastResponse.data)

\* C7: when a refreshMarketData call ends, refreshDataBtn is enabled; after a
\* response with success = false the log line is a warning and the table shows
\* data.data if the response carried it and is unchanged otherwise; after a
\* throwing fetch or json() the log line is an error and the table is unchanged.
C7_FailureHandling ==
    [][ PollFinishes =>
          /\ refreshDataBtnDisabled' = FALSE
          /\ lastResponse'.kind = "throw" =>
                marketLog' = "error" /\ marketData' = marketData
          /\ (lastResponse'.kind = "json" /\ ~lastResponse'.success) =>
                /\ marketLog' = "warning"
                /\ IF lastResponse'.hasData
                   THEN RenderedExactly(marketData', lastResponse'.data)
                   ELSE marketData' = marketData ]_vars

\* A call ended in the catch block: the error is logged, the button is enabled
\* although another call is in flight, and the quotes rendered before remain.
C7_Witness ==
    /\ lastResponse.kind = "throw" /\ marketLog = "error"
    /\ ~refreshDataBtnDisabled /\ marketFetches # <<>>
    /\ marketData.items # <<>>

\* C8: after displayMarketData(data) the panel holds exactly one item per
\* element of data.symbols, in payload order, when data.symbols is an array, and
\* only the placeholder 'No market data available' otherwise; nothing rendered
\* before remains.
C8_LatestWins == lastDisplayed.kind # "never" => RenderedExactly(marketData, lastDisplayed)

\* A payload of two quotes is shown after at least two earlier renderings.
C8_Witness ==
    /\ staleOverFresh
    /\ lastDisplayed.kind = "array" /\ Len(lastDisplayed.symbols) = 2
    /\ Len(marketData.items) = 2
    /\ marketData.items[1].symbol # marketData.items[2].symbol

\* C9: unless 'live' is stored the paper toggle is checked and labelled Paper
\* Trade; startAlgoAgent sends 'backtest' exactly when the backtest toggle is
\* checked, 'live' exactly when the paper toggle is unchecked and the backtest
\* toggle is not checked, and 'paper' otherwise.
C9_PaperDefault ==
    /\ tradeModeStored # "live" => paperTradeChecked /\ paperTradeLabel = "Paper Trade"
    /\ lastStart.trade_mode # "none" =>
          /\ lastStart.trade_mode \in {"paper", "live", "backtest"}
          /\ lastStart.trade_mode = "backtest" <=> lastStart.backtestChecked
          /\ lastStart.trade_mode = "live" <=>
                (~lastStart.paperChecked /\ ~lastStart.backtestChecked)

\* A stored value that is neither 'paper' nor 'live' was restored as Paper, and
\* the agent was started in paper mode.
C9_Witness ==
    /\ tradeModeStored = "other" /\ paperTradeChecked
    /\ lastStart.trade_mode = "paper" /\ startLog = "started PAPER"

AlphaRank(sym) ==
    CASE sym = "BANKNIFTY" -> 1
      [] sym = "FINNIFTY" -> 2
      [] sym = "GIFTNIFTY" -> 3
      [] sym = "NIFTY50" -> 4
      [] sym = "RELIANCE" -> 5
      [] sym = "SENSEX" -> 6
      [] sym = "TCS" -> 7
      [] OTHER -> 8

\* The rows are in alphabetical order of their symbols, and no two rows hold
\* symbols that differ only in case.
AlphabeticalRows(rows) ==
    /\ \A i, j \in DOMAIN rows : i < j => AlphaRank(toUpperCase(rows[i])) <= AlphaRank(toUpperCase(rows[j]))
    /\ \A i, j \in DOMAIN rows :
          toUpperCase(rows[i]) = toUpperCase(rows[j]) => rows[i] = rows[j]

\* C11: after any sequence of symbol additions and refreshes the rows of the
\* rendered watchlist tables are sorted alphabetically by symbol (TCS after
\* SENSEX), and no two rows hold the same symbol in different case.
C11_WatchlistAlphabetical ==
    /\ AlphabeticalRows(watchlistTabContent)
    /\ AlphabeticalRows(watchlistData)

\* C12: whenever saveConfiguration has reported 'Configuration saved
\* successfully', the configuration of the backend holds the four values that
\* were entered (profit lock threshold, trailing stop loss, min gain target,
\* max positions).
C12_SavedMeansPersisted ==
    notification = "Configuration saved successfully" => backendConfig = savedConfig

\* The item rendered for quote q shows its symbol, its price and its change,
\* with the sign class and the leading '+' that the parsed change calls for.
ColourCoded(item, q) ==
    LET parsed == parseFloat(q.change)
        isNumber == ~parsed.nan
    IN  /\ item.symbol = q.symbol
        /\ item.price = parseFloat(q.price)
        /\ item.change = (IF isNumber THEN parsed.v ELSE 0)
        /\ (item.changeClass = "positive") = (isNumber /\ parsed.v > 0)
        /\ (item.changeSign = "+") = (isNumber /\ parsed.v > 0)
        /\ (item.changeClass = "negative") = (isNumber /\ parsed.v < 0)
        /\ (item.changeClass = "") = (~isNumber \/ parsed.v = 0)

\* C13: for every quote of the payload displayMarketData was last called with,
\* the panel holds an item with the quote's symbol, price and change; the
\* change cell has class 'positive' and a leading '+' exactly when the parsed
\* change is > 0, class 'negative' exactly when it is < 0, and no sign class
\* when it is 0 or not a number.
C13_ColourCodedBySign ==
    lastDisplayed.kind = "array" =>
        /\ Len(marketData.items) = Len(lastDisplayed.symbols)
        /\ \A k \in DOMAIN lastDisplayed.symbols :
              ColourCoded(marketData.items[k], lastDisplayed.symbols[k])

\* A payload with a rising quote, a flat quote and a quote whose change is no
\* number has been rendered: the first item is 'positive' with its '+', the
\* other two have no sign class.
C13_Witness ==
    /\ lastDisplayed.kind = "array"
    /\ Len(marketData.items) = 3
    /\ lastDisplayed.symbols[1].change = "1.50"
    /\ marketData.items[1].changeClass = "positive"
    /\ lastDisplayed.symbols[2].change = "0"
    /\ marketData.items[2].changeClass = ""
    /\ lastDisplayed.symbols[3].change = "n/a"
    /\ marketData.items[3].changeClass = ""

\* This step creates a WebSocket (new WebSocket(url) in connectWebSocket).
SocketCreated ==
    \E s \in SockIds : /\ sockets[s].readyState # "CONNECTING"
                       /\ sockets'[s].readyState = "CONNECTING"

\* C14: no WebSocket is created while the backend reports
\* access_token_valid = false, by initWebSocketIfConfigured or by any other
\* path (reconnect timer, toggle change, Connect click).
C14_NoSocketWhileUnauthenticated == [][SocketCreated => accessTokenValid]_vars

\* C15: while the WS toggle is unchecked no WebSocket is created or
\* re-created, not by initWebSocketIfConfigured, not by attemptReconnect, and
\* not by a reconnect timer that was scheduled while the toggle was checked.
C15_TogglePreferenceHonoured == [][SocketCreated => wsToggleChecked]_vars

\* C16: after the user clicks Disconnect no WebSocket is created until the
\* user clicks Connect or re-checks the toggle, whatever the onclose handler
\* of the closed socket does afterwards.
C16_ManualDisconnectFinal == [][SocketCreated => ~manualDisconnect]_vars

\* This step is the open event of a socket.
SocketOpened ==
    \E s \in SockIds : sockets[s].readyState = "CONNECTING" /\ sockets'[s].readyState = "OPEN"

\* C17: reconnectAttempts is set to 0 by a socket's onopen and lowered by
\* nothing else; the retry that follows a reset is scheduled with the 1 s base
\* delay; and with the budget of 6 used up no step other than an open (no
\* Connect click, toggle change or closeWebSocket) brings retries back.
C17_ResetOnlyByOnopen ==
    [][ /\ SocketOpened => reconnectAttempts' = 0
        /\ reconnectAttempts' < reconnectAttempts => SocketOpened
        /\ (reconnectAttempts = 0 /\ reconnectAttempts' # 0) =>
              (reconnectAttempts' = 1 /\ lastDelay' = BackoffBaseMs)
        /\ (reconnectAttempts = MAX_RECONNECT_ATTEMPTS /\ ~SocketOpened) =>
              (reconnectAttempts' = MAX_RECONNECT_ATTEMPTS /\ reconnectTimers' \sqsubseteq reconnectTimers)
      ]_vars

\* The budget is used up, closeWebSocket has run, and a Connect click or a
\* toggle change has called initWebSocketIfConfigured: still no retries.
C17_Witness ==
    /\ reconnectAttempts = MAX_RECONNECT_ATTEMPTS
    /\ reconnectTimers = EmptyBag
    /\ marketSocket = Null
    /\ wsToggleChecked
    /\ configFetches > 0

\* The market, watchlist and account sections are hidden.
SectionsHidden == \A sec \in {"market", "watchlist", "account"} : sectionDisplay[sec] = "none"

\* The market, watchlist and account sections are visible.
SectionsVisible == \A sec \in {"market", "watchlist", "account"} : sectionDisplay[sec] = ""

\* C18: as long as the page has not been unlocked by a valid access token, the
\* market, watchlist and account sections stay hidden (display 'none'),
\* whatever navigation clicks the user performs.
C18_LockedSectionsHidden == ~sectionsUnlocked => SectionsHidden

\* C19: when verifyOtp has succeeded and run to its end, the market, watchlist
\* and account sections are visible and their controls and polling timer are
\* set up, without a page reload.
C19_VerifyOtpUnlocks ==
    [][(verifyOtpPhase = "config" /\ verifyOtpPhase' = "idle") =>
          (SectionsVisible' /\ sectionsUnlocked' /\ pollTimer' # -1 /\ ~refreshDataBtnDisabled')]_vars

\* C20: once the first /algo/status response has been processed the Start
\* and Stop buttons are never both enabled, under any interleaving of Start
\* clicks, Stop clicks, their responses and the periodic status responses.
C20_StartStopExclusive == statusSeen => (agentStartDisabled \/ agentStopDisabled)

\* C21: the watchlist tab panel shows data (or the placeholder) of the tab
\* that is selected now: no response to a request made for another tab, and
\* no periodic algo_top10 refresh, overwrites it.
C21_PanelOfCurrentTab == tabContentOf = currentWatchlistTab

\* C23: at most one auto-refresh interval timer of the watchlist exists,
\* whatever navigation entries have been clicked; none exists when the entry
\* clicked last is Dashboard; and no timer tick has refreshed the watchlist
\* while the watchlist section was hidden.
C23_OneWatchlistTimer ==
    /\ watchlistTimers <= 1
    /\ watchlistInterval <=> (watchlistTimers = 1)
    /\ (lastNav = "dashboard" => watchlistTimers = 0)
    /\ ~timerRefreshHidden

\* Market Movers has been clicked while the timer of an earlier click was
\* live, and the refresh of the visible watchlist section is under way.
C23_Witness ==
    /\ timerRestarted
    /\ lastNav = "watchlist"
    /\ watchlistInterval /\ watchlistTimers = 1
    /\ watchlistFetches = 1
    /\ sectionDisplay["watchlist"] # "none"

\* C22: setupUnlockedSections runs at most once per page load, so the 5 s
\* status poll, the 10 s market poll and the listener of each button are
\* registered at most once, whichever of the unlock paths (page without auth
\* section, token already valid) fire.
C22_SetupAtMostOnce ==
    /\ setupRuns <= 1
    /\ intervals.status <= 1 /\ intervals.market <= 1
    /\ \A b \in ListenerTargets : listeners[b] <= 1
    /\ windowSectionsUnlocked => setupRuns = 1

\* Both unlock paths have fired on a page without auth section whose token is
\* valid, and setupUnlockedSections has run to its end.
C22_Witness ==
    /\ pageLoaded /\ ~page.authSection /\ page.tokenValid
    /\ windowSectionsUnlocked /\ setupRuns = 1
    /\ intervals = [status |-> 1, market |-> 1]
    /\ listeners["startBtn"] = 1 /\ listeners["refreshDataBtn"] = 1

=========================================================================
